---------------------------- MODULE Spec2Model ----------------------------
(***************************************************************************)
(* A model of gossh's task orchestrator (package sshtask) and of the       *)
(* helpers it calls.  Strings are sequences of one-character strings, so   *)
(* that trimming, splitting and prefix tests are computed, not assumed.    *)
(***************************************************************************)
EXTENDS Naturals, Sequences, FiniteSets, TLC

(***************************************************************************)
(* Bounds of the model.                                                    *)
(***************************************************************************)
\* longest hosts-file content (in characters) drawn for getAllHosts
MaxFileLen == 4
\* most positional host arguments drawn for getAllHosts
MaxArgs == 2

(***************************************************************************)
(* Strings.                                                                *)
(***************************************************************************)
SP == " "
NL == "\n"

\* the characters strings.TrimSpace removes
WhiteSpace == {SP, NL, "\t", "\r"}

\* all sequences over S of length at most n
SeqsUpTo(S, n) == UNION {[1..k -> S] : k \in 0..n}

RECURSIVE TrimLeft(_)
TrimLeft(s) ==
    IF s # <<>> /\ Head(s) \in WhiteSpace THEN TrimLeft(Tail(s)) ELSE s

RECURSIVE TrimRight(_)
TrimRight(s) ==
    IF s # <<>> /\ s[Len(s)] \in WhiteSpace
    THEN TrimRight(SubSeq(s, 1, Len(s) - 1))
    ELSE s

\* strings.TrimSpace
TrimSpace(s) == TrimRight(TrimLeft(s))

\* strings.TrimSuffix(s, "\n"): one trailing newline is removed, not more
TrimSuffixNL(s) ==
    IF s # <<>> /\ s[Len(s)] = NL THEN SubSeq(s, 1, Len(s) - 1) ELSE s

\* strings.Split(s, "\n"): always at least one (possibly empty) field
RECURSIVE SplitNL(_, _, _)
SplitNL(s, cur, acc) ==
    IF s = <<>> THEN Append(acc, cur)
    ELSE IF Head(s) = NL THEN SplitNL(Tail(s), <<>>, Append(acc, cur))
    ELSE SplitNL(Tail(s), Append(cur, Head(s)), acc)

Split(s) == SplitNL(s, <<>>, <<>>)

\* the elements of a sequence
Range(s) == {s[i] : i \in 1..Len(s)}

RECURSIVE Flatten(_)
Flatten(ss) == IF ss = <<>> THEN <<>> ELSE Head(ss) \o Flatten(Tail(ss))

CR == "\r"

\* strings.ReplaceAll(s, "\r\n", "\n")
RECURSIVE ReplaceCRNL(_)
ReplaceCRNL(s) ==
    IF Len(s) >= 2 /\ s[1] = CR /\ s[2] = NL THEN <<NL>> \o ReplaceCRNL(Tail(Tail(s)))
    ELSE IF s = <<>> THEN <<>>
    ELSE <<Head(s)>> \o ReplaceCRNL(Tail(s))

\* where pat occurs in s
Occurrences(s, pat) ==
    {i \in 1..(Len(s) - Len(pat) + 1) : SubSeq(s, i, i + Len(pat) - 1) = pat}

\* the rest of s after the last occurrence of pat
AfterLast(s, pat) ==
    LET occ == Occurrences(s, pat)
        last == CHOOSE i \in occ : \A j \in occ : j <= i
    IN  SubSeq(s, last + Len(pat), Len(s))

(***************************************************************************)
(* The sudo prompt.  The character "E" stands for the text                 *)
(* "[sudo] password for <user>:" and "Z" for "[sudo] <user> 的密码：", so   *)
(* that the two alternatives of sudoPromptRegex are "E", space, newline    *)
(* and "Z", newline, each after (?s).* , which takes any text, newlines    *)
(* included.                                                               *)
(***************************************************************************)
PromptEn == "E"
PromptZh == "Z"
SudoPromptEn == <<PromptEn, SP, NL>>
SudoPromptZh == <<PromptZh, NL>>

\* re.ReplaceAllString(s, "") for sudoPromptRegex: matches are found from
\* the left; at a position the first alternative is tried first, and .* is
\* greedy, so a match runs from the position to the end of the last prompt
\* of that alternative; the search goes on behind the match.
RECURSIVE ReplaceSudoPrompt(_)
ReplaceSudoPrompt(s) ==
    IF Occurrences(s, SudoPromptEn) # {}
    THEN ReplaceSudoPrompt(AfterLast(s, SudoPromptEn))
    ELSE IF Occurrences(s, SudoPromptZh) # {}
    THEN ReplaceSudoPrompt(AfterLast(s, SudoPromptZh))
    ELSE s

\* the output field HandleOutput logs for a host's captured output
RenderOutput(out) == ReplaceSudoPrompt(TrimSpace(ReplaceCRNL(out)))

(***************************************************************************)
(* Host patterns (expandhost.PatternToHosts).  A pattern is a string whose *)
(* characters are literal host characters, the character "G" standing for  *)
(* the bracket group [a,b], or the character "X" standing for a malformed  *)
(* group (unbalanced bracket, empty group, range with A > B).  Groups      *)
(* multiply out left to right.                                             *)
(***************************************************************************)
GroupChar == "G"
BadChar == "X"

\* the alternatives one pattern character stands for, in order
Alternatives(c) == IF c = GroupChar THEN <<"a", "b">> ELSE <<c>>

RECURSIVE Product(_)
Product(p) ==
    IF p = <<>> THEN << <<>> >>
    ELSE LET alts == Alternatives(Head(p))
             rest == Product(Tail(p))
         IN  Flatten([i \in 1..Len(alts) |->
                        [j \in 1..Len(rest) |-> <<alts[i]>> \o rest[j]]])

\* expandhost.PatternToHosts: the hosts of a pattern, or an error
PatternToHosts(p) ==
    IF BadChar \in Range(p)
    THEN [hosts |-> <<>>, err |-> "pattern"]
    ELSE [hosts |-> Product(p), err |-> ""]

\* util.RemoveDuplStr: duplicates after the first are dropped, order kept
RECURSIVE RemoveDuplFrom(_, _)
RemoveDuplFrom(s, acc) ==
    IF s = <<>> THEN acc
    ELSE IF Head(s) \in Range(acc) THEN RemoveDuplFrom(Tail(s), acc)
    ELSE RemoveDuplFrom(Tail(s), Append(acc, Head(s)))

RemoveDuplStr(s) == RemoveDuplFrom(s, <<>>)


(***************************************************************************)
(* Errors.  NoErr is Go's nil error.                                       *)
(***************************************************************************)
NoErr == "nil"
ErrInvalidPattern == "invalid host pattern"
ErrReadHostsFile == "read hosts file failed"
ErrNeedHosts == "need target hosts"
ErrNeedExecute == "need flag '-e/--execute' or '-L/--hosts.list'"
ErrNeedFiles == "need flag '-f/--files' or '-L/--hosts.list'"
ErrNeedDestPath == "need flag '-d/--dest-path' or '-L/--hosts.list'"

HostErrors == {ErrInvalidPattern, ErrReadHostsFile, ErrNeedHosts}
PreconditionErrors == {ErrNeedExecute, ErrNeedFiles, ErrNeedDestPath}

(***************************************************************************)
(* getAllHosts.                                                            *)
(***************************************************************************)
\* ExpandPatterns without strings.TrimSpace: a pattern is skipped only when
\* it is the empty string.
ExpandUntrimmed(patterns, hosts) ==
    LET F[i \in 0..Len(patterns)] ==
            IF i = 0 THEN [hosts |-> hosts, err |-> NoErr]
            ELSE LET prev == F[i - 1]
                     r == PatternToHosts(patterns[i])
                 IN  IF prev.err # NoErr THEN prev
                     ELSE IF patterns[i] = <<>> THEN prev
                     ELSE IF r.err # "" THEN [hosts |-> <<>>, err |-> ErrInvalidPattern]
                     ELSE [hosts |-> prev.hosts \o r.hosts, err |-> NoErr]
    IN  F[Len(patterns)]

\* The loop shared by the two halves of getAllHosts: each pattern is
\* trimmed, skipped when empty, expanded, and its hosts appended; the first
\* pattern that does not expand ends the loop with the error.
RECURSIVE ExpandPatterns(_, _)
ExpandPatterns(patterns, hosts) ==
    IF patterns = <<>> THEN [hosts |-> hosts, err |-> NoErr]
    ELSE LET hostOrPattern == TrimSpace(Head(patterns))
         IN  IF hostOrPattern = <<>> THEN ExpandPatterns(Tail(patterns), hosts)
             ELSE LET r == PatternToHosts(hostOrPattern)
                  IN  IF r.err # ""
                      THEN [hosts |-> <<>>, err |-> ErrInvalidPattern]
                      ELSE ExpandPatterns(Tail(patterns), hosts \o r.hosts)

\* getAllHosts without the final util.RemoveDuplStr
getAllHostsNoDedup(hosts, fileName, file) ==
    LET fromArgs == ExpandPatterns(hosts, <<>>)
        fromFile == ExpandPatterns(Split(TrimSuffixNL(file.content)), fromArgs.hosts)
        all == IF fileName = "" THEN fromArgs ELSE fromFile
    IN  IF fromArgs.err # NoErr THEN [hosts |-> <<>>, err |-> fromArgs.err]
        ELSE IF fileName # "" /\ ~file.readable
        THEN [hosts |-> <<>>, err |-> ErrReadHostsFile]
        ELSE IF all.err # NoErr THEN [hosts |-> <<>>, err |-> all.err]
        ELSE IF Len(all.hosts) = 0 THEN [hosts |-> <<>>, err |-> ErrNeedHosts]
        ELSE [hosts |-> all.hosts, err |-> NoErr]

\* Task.getAllHosts: hosts are t.hosts, fileName is configFlags.Hosts.File
\* and file is what ioutil.ReadFile finds there.
getAllHosts(hosts, fileName, file) ==
    LET fromArgs == ExpandPatterns(hosts, <<>>)
        fromFile == ExpandPatterns(Split(TrimSuffixNL(file.content)), fromArgs.hosts)
        all == IF fileName = "" THEN fromArgs ELSE fromFile
    IN  IF fromArgs.err # NoErr THEN [hosts |-> <<>>, err |-> fromArgs.err]
        ELSE IF fileName # "" /\ ~file.readable
        THEN [hosts |-> <<>>, err |-> ErrReadHostsFile]
        ELSE IF all.err # NoErr THEN [hosts |-> <<>>, err |-> all.err]
        ELSE IF Len(all.hosts) = 0 THEN [hosts |-> <<>>, err |-> ErrNeedHosts]
        ELSE [hosts |-> RemoveDuplStr(all.hosts), err |-> NoErr]

(***************************************************************************)
(* The vault codec as the task sees it (package aes).  A ciphertext is the *)
(* header character, the character of the passphrase it was sealed with,   *)
(* and the plaintext.                                                      *)
(***************************************************************************)
VaultHeader == "$"
ErrVault == "decrypt failed"
ErrReadAuthFile == "read auth file failed"

\* aes.IsAES256CipherText: the trimmed input begins with the header
IsAES256CipherText(s) ==
    LET x == TrimSpace(s) IN x # <<>> /\ Head(x) = VaultHeader

\* aes.AES256Decode
AES256Decode(c, vaultPass) ==
    LET x == TrimSpace(c)
    IN  IF Len(x) >= 2 /\ vaultPass = <<x[2]>>
        THEN [plain |-> SubSeq(x, 3, Len(x)), err |-> NoErr]
        ELSE [plain |-> <<>>, err |-> ErrVault]

\* aes.AES256Encode: an empty passphrase is refused
ErrEncrypt == "encrypt failed"
AES256Encode(plain, vaultPass) ==
    IF vaultPass = <<>>
    THEN [cipher |-> <<>>, err |-> ErrEncrypt]
    ELSE [cipher |-> <<VaultHeader>> \o vaultPass \o plain, err |-> NoErr]

\* assignRealPass: pass is replaced by its plaintext when it is a vault
\* ciphertext; a failed decryption ends the process (util.CheckErr).
assignRealPass(pass, vaultPass) ==
    IF IsAES256CipherText(pass)
    THEN LET d == AES256Decode(pass, vaultPass)
         IN  [pass |-> d.plain, exit |-> d.err # NoErr, vaultAsked |-> 1]
    ELSE [pass |-> pass, exit |-> FALSE, vaultAsked |-> 0]

\* getPasswordFromPrompt: what is typed at the terminal; a terminal that
\* cannot be read ends the process (util.CheckErr).
getPasswordFromPrompt(tty) == [password |-> tty.answer, exit |-> ~tty.ok]

(***************************************************************************)
(* getPassword.  The result carries, besides the two values the Go         *)
(* function returns, whether the process ended inside the call and how     *)
(* often the login password and the vault passphrase were asked for.       *)
(***************************************************************************)
\* getPassword with the flag and the file in the wrong order
getPasswordFileFirst(auth, env) ==
    LET fromFile == IF auth.PassFile # "" /\ env.passFile.readable
                    THEN TrimSpace(env.passFile.content) ELSE <<>>
        fileErr == IF auth.PassFile # "" /\ ~env.passFile.readable
                   THEN ErrReadAuthFile ELSE NoErr
        chosen == IF fromFile # <<>> THEN fromFile ELSE auth.Password
        real == assignRealPass(chosen, env.vaultPass)
        asked == getPasswordFromPrompt(env.tty)
    IN  IF real.exit
        THEN [password |-> <<>>, err |-> fileErr, exit |-> TRUE,
              prompts |-> 0, vaultAsked |-> real.vaultAsked]
        ELSE IF auth.AskPass
        THEN [password |-> asked.password, err |-> fileErr, exit |-> asked.exit,
              prompts |-> 1, vaultAsked |-> real.vaultAsked]
        ELSE [password |-> real.pass, err |-> fileErr, exit |-> FALSE,
              prompts |-> 0, vaultAsked |-> real.vaultAsked]

getPassword(auth, env) ==
    LET \* password = strings.TrimSpace(string(passwordContent))
        fromFile == IF auth.PassFile # "" /\ env.passFile.readable
                    THEN TrimSpace(env.passFile.content) ELSE <<>>
        fileErr == IF auth.PassFile # "" /\ ~env.passFile.readable
                   THEN ErrReadAuthFile ELSE NoErr
        \* if passwordFromFlag != "" { password = passwordFromFlag }
        chosen == IF auth.Password # <<>> THEN auth.Password ELSE fromFile
        real == assignRealPass(chosen, env.vaultPass)
        asked == getPasswordFromPrompt(env.tty)
    IN  IF real.exit
        THEN [password |-> <<>>, err |-> fileErr, exit |-> TRUE,
              prompts |-> 0, vaultAsked |-> real.vaultAsked]
        ELSE IF auth.AskPass
        THEN [password |-> asked.password, err |-> fileErr, exit |-> asked.exit,
              prompts |-> 1, vaultAsked |-> real.vaultAsked]
        ELSE [password |-> real.pass, err |-> fileErr, exit |-> FALSE,
              prompts |-> 0, vaultAsked |-> real.vaultAsked]

(***************************************************************************)
(* Identity files and signers.  A path is the sequence of its components;  *)
(* env.keys says what each path holds: "missing", "garbage", "plain" or    *)
(* "encrypted" (which env.keyPass opens).                                  *)
(***************************************************************************)
\* getItentityFiles, getProxyItentityFiles: a leading ~/ becomes $HOME/
getItentityFiles(files, home) ==
    [i \in 1..Len(files) |->
        IF Len(files[i]) > 1 /\ Head(files[i]) = "~"
        THEN <<home>> \o Tail(files[i])
        ELSE files[i]]

\* getSigner: the signer of a key file (named after the file), or "" for nil
getSigner(keyfile, passphrase, env) ==
    LET kind == IF keyfile \in DOMAIN env.keys THEN env.keys[keyfile] ELSE "missing"
    IN  IF kind = "plain" THEN keyfile
        ELSE IF kind = "encrypted" /\ passphrase = env.keyPass THEN keyfile
        ELSE <<>>

RECURSIVE SignersOf(_, _, _)
SignersOf(keyfiles, passphrase, env) ==
    IF keyfiles = <<>> THEN <<>>
    ELSE LET signer == getSigner(Head(keyfiles), passphrase, env)
             rest == SignersOf(Tail(keyfiles), passphrase, env)
         IN  IF signer # <<>> THEN <<signer>> \o rest ELSE rest

\* getSigners: the passphrase is vault-decrypted first
getSigners(keyfiles, passphrase, env) ==
    LET real == assignRealPass(passphrase, env.vaultPass)
    IN  [signers |-> IF real.exit THEN <<>> ELSE SignersOf(keyfiles, real.pass, env),
         exit |-> real.exit, vaultAsked |-> real.vaultAsked]

(***************************************************************************)
(* Auth bundles.                                                           *)
(***************************************************************************)
\* the nil net.Conn; connections are numbered from 1
NoConn == 0

Password(pw) == [kind |-> "password", secret |-> pw]
PublicKeys(signers) == [kind |-> "publickey", signers |-> signers]
PublicKeysCallback(conn) == [kind |-> "agent", conn |-> conn]

\* net.Dial("unix", $SSH_AUTH_SOCK): the connection opened, or NoConn.
\* Connections are numbered in the order they are opened.
Dial(env, opened) == IF env.authSock = "ok" THEN opened + 1 ELSE NoConn

\* getSSHAuthMethods without the prompt for a sudo password
getSSHAuthMethodsNoSudoPrompt(password, cfg, env, sshAgent, opened) ==
    LET a1 == IF password # <<>> THEN <<Password(password)>> ELSE <<>>
        keyfiles == getItentityFiles(cfg.Auth.IdentityFiles, env.home)
        sg == IF Len(keyfiles) # 0
              THEN getSigners(keyfiles, cfg.Auth.Passphrase, env)
              ELSE [signers |-> <<>>, exit |-> FALSE, vaultAsked |-> 0]
        a2 == IF Len(sg.signers) # 0 THEN Append(a1, PublicKeys(sg.signers)) ELSE a1
        conn == Dial(env, opened)
        a3 == IF env.authSock # "unset" /\ conn # NoConn
              THEN Append(a2, PublicKeysCallback(conn)) ELSE a2
        agent == IF env.authSock # "unset" THEN conn ELSE sshAgent
        nowOpen == IF env.authSock # "unset" /\ conn # NoConn THEN opened + 1 ELSE opened
        asked == getPasswordFromPrompt(env.tty)
    IN  IF sg.exit
        THEN [auths |-> a1, password |-> password, sshAgent |-> sshAgent,
              opened |-> opened, prompts |-> 0, vaultAsked |-> sg.vaultAsked,
              exit |-> TRUE]
        ELSE IF Len(a3) = 0
        THEN [auths |-> Append(a3, Password(asked.password)),
              password |-> asked.password, sshAgent |-> agent, opened |-> nowOpen,
              prompts |-> 1, vaultAsked |-> sg.vaultAsked, exit |-> asked.exit]
        ELSE [auths |-> a3, password |-> password, sshAgent |-> agent,
              opened |-> nowOpen, prompts |-> 0, vaultAsked |-> sg.vaultAsked,
              exit |-> FALSE]

\* getSSHAuthMethods prompting for the sudo password even when a password
\* is known
getSSHAuthMethodsSudoAlwaysPrompts(password, cfg, env, sshAgent, opened) ==
    LET a1 == IF password # <<>> THEN <<Password(password)>> ELSE <<>>
        keyfiles == getItentityFiles(cfg.Auth.IdentityFiles, env.home)
        sg == IF Len(keyfiles) # 0
              THEN getSigners(keyfiles, cfg.Auth.Passphrase, env)
              ELSE [signers |-> <<>>, exit |-> FALSE, vaultAsked |-> 0]
        a2 == IF Len(sg.signers) # 0 THEN Append(a1, PublicKeys(sg.signers)) ELSE a1
        conn == Dial(env, opened)
        a3 == IF env.authSock # "unset" /\ conn # NoConn
              THEN Append(a2, PublicKeysCallback(conn)) ELSE a2
        agent == IF env.authSock # "unset" THEN conn ELSE sshAgent
        nowOpen == IF env.authSock # "unset" /\ conn # NoConn THEN opened + 1 ELSE opened
        asked == getPasswordFromPrompt(env.tty)
        needPrompt == Len(a3) = 0 \/ cfg.Run.Sudo
    IN  IF sg.exit
        THEN [auths |-> a1, password |-> password, sshAgent |-> sshAgent,
              opened |-> opened, prompts |-> 0, vaultAsked |-> sg.vaultAsked,
              exit |-> TRUE]
        ELSE IF needPrompt
        THEN [auths |-> Append(a3, Password(asked.password)),
              password |-> asked.password, sshAgent |-> agent, opened |-> nowOpen,
              prompts |-> 1, vaultAsked |-> sg.vaultAsked, exit |-> asked.exit]
        ELSE [auths |-> a3, password |-> password, sshAgent |-> agent,
              opened |-> nowOpen, prompts |-> 0, vaultAsked |-> sg.vaultAsked,
              exit |-> FALSE]

\* getSSHAuthMethods.  opened is the number of agent connections opened so
\* far; the result carries the password as the caller sees it afterwards
\* (it is passed by pointer) and the value the call leaves in t.sshAgent.
getSSHAuthMethods(password, cfg, env, sshAgent, opened) ==
    LET a1 == IF password # <<>> THEN <<Password(password)>> ELSE <<>>
        keyfiles == getItentityFiles(cfg.Auth.IdentityFiles, env.home)
        sg == IF Len(keyfiles) # 0
              THEN getSigners(keyfiles, cfg.Auth.Passphrase, env)
              ELSE [signers |-> <<>>, exit |-> FALSE, vaultAsked |-> 0]
        a2 == IF Len(sg.signers) # 0 THEN Append(a1, PublicKeys(sg.signers)) ELSE a1
        conn == Dial(env, opened)
        a3 == IF env.authSock # "unset" /\ conn # NoConn
              THEN Append(a2, PublicKeysCallback(conn)) ELSE a2
        agent == IF env.authSock # "unset" THEN conn ELSE sshAgent
        nowOpen == IF env.authSock # "unset" /\ conn # NoConn THEN opened + 1 ELSE opened
        asked == getPasswordFromPrompt(env.tty)
        needPrompt == Len(a3) = 0 \/ (password = <<>> /\ cfg.Run.Sudo)
    IN  IF sg.exit
        THEN [auths |-> a1, password |-> password, sshAgent |-> sshAgent,
              opened |-> opened, prompts |-> 0, vaultAsked |-> sg.vaultAsked,
              exit |-> TRUE]
        ELSE IF needPrompt
        THEN [auths |-> Append(a3, Password(asked.password)),
              password |-> asked.password, sshAgent |-> agent, opened |-> nowOpen,
              prompts |-> 1, vaultAsked |-> sg.vaultAsked, exit |-> asked.exit]
        ELSE [auths |-> a3, password |-> password, sshAgent |-> agent,
              opened |-> nowOpen, prompts |-> 0, vaultAsked |-> sg.vaultAsked,
              exit |-> FALSE]

\* getProxySSHAuthMethods without the fallback to the target password
getProxySSHAuthMethodsOwnPassword(password, cfg, env, sshAgent, opened) ==
    LET a1 == <<Password(cfg.Proxy.Password)>>
        keyfiles == getItentityFiles(cfg.Proxy.IdentityFiles, env.home)
        sg == IF Len(keyfiles) # 0
              THEN getSigners(keyfiles, cfg.Proxy.Passphrase, env)
              ELSE [signers |-> <<>>, exit |-> FALSE, vaultAsked |-> 0]
        a2 == IF Len(sg.signers) # 0 THEN Append(a1, PublicKeys(sg.signers)) ELSE a1
        conn == Dial(env, opened)
        a3 == IF env.authSock # "unset" /\ conn # NoConn
              THEN Append(a2, PublicKeysCallback(conn)) ELSE a2
        agent == IF env.authSock # "unset" THEN conn ELSE sshAgent
        nowOpen == IF env.authSock # "unset" /\ conn # NoConn THEN opened + 1 ELSE opened
    IN  IF sg.exit
        THEN [auths |-> a1, sshAgent |-> sshAgent, opened |-> opened,
              vaultAsked |-> sg.vaultAsked, exit |-> TRUE]
        ELSE [auths |-> a3, sshAgent |-> agent, opened |-> nowOpen,
              vaultAsked |-> sg.vaultAsked, exit |-> FALSE]

\* getProxySSHAuthMethods
getProxySSHAuthMethods(password, cfg, env, sshAgent, opened) ==
    LET a1 == IF cfg.Proxy.Password # <<>>
              THEN <<Password(cfg.Proxy.Password)>>
              ELSE <<Password(password)>>
        keyfiles == getItentityFiles(cfg.Proxy.IdentityFiles, env.home)
        sg == IF Len(keyfiles) # 0
              THEN getSigners(keyfiles, cfg.Proxy.Passphrase, env)
              ELSE [signers |-> <<>>, exit |-> FALSE, vaultAsked |-> 0]
        a2 == IF Len(sg.signers) # 0 THEN Append(a1, PublicKeys(sg.signers)) ELSE a1
        conn == Dial(env, opened)
        a3 == IF env.authSock # "unset" /\ conn # NoConn
              THEN Append(a2, PublicKeysCallback(conn)) ELSE a2
        agent == IF env.authSock # "unset" THEN conn ELSE sshAgent
        nowOpen == IF env.authSock # "unset" /\ conn # NoConn THEN opened + 1 ELSE opened
    IN  IF sg.exit
        THEN [auths |-> a1, sshAgent |-> sshAgent, opened |-> opened,
              vaultAsked |-> sg.vaultAsked, exit |-> TRUE]
        ELSE [auths |-> a3, sshAgent |-> agent, opened |-> nowOpen,
              vaultAsked |-> sg.vaultAsked, exit |-> FALSE]

\* batchssh.NewClient with the options buildSSHClient passes
NewClient(user, password, auths, concurrency, proxyServer, proxyAuths) ==
    [user |-> user, password |-> password, auths |-> auths,
     concurrency |-> concurrency, proxyServer |-> proxyServer,
     proxyAuths |-> proxyAuths]

NoClient == [user |-> "", password |-> <<>>, auths |-> <<>>, concurrency |-> 0,
             proxyServer |-> "", proxyAuths |-> <<>>]

(***************************************************************************)
(* Task types and the precondition switch of BatchRun.                     *)
(***************************************************************************)
CommandTask == "CommandTask"
ScriptTask == "ScriptTask"
PushTask == "PushTask"
FetchTask == "FetchTask"

\* the nil *pushFiles
NilPushFiles == [isNil |-> TRUE, files |-> <<>>, zipFiles |-> <<>>]

\* The switch on t.taskType in BatchRun: the error it assigns to t.err, and
\* whether util.CheckErr ends the process (os.MkdirAll failed).
Precondition(task, env) ==
    IF task.taskType = CommandTask
    THEN [err |-> IF task.command = "" THEN ErrNeedExecute ELSE NoErr, exit |-> FALSE]
    ELSE IF task.taskType = ScriptTask
    THEN [err |-> IF task.scriptFile = "" THEN ErrNeedExecute ELSE NoErr, exit |-> FALSE]
    ELSE IF task.taskType = PushTask
    THEN [err |-> IF task.pushFiles.isNil \/ Len(task.pushFiles.files) = 0
                  THEN ErrNeedFiles ELSE NoErr,
          exit |-> FALSE]
    ELSE IF Len(task.fetchFiles) = 0 THEN [err |-> ErrNeedFiles, exit |-> FALSE]
    ELSE IF task.dstDir = "" THEN [err |-> ErrNeedDestPath, exit |-> FALSE]
    ELSE [err |-> NoErr, exit |-> ~env.dirExists /\ ~env.mkdirOk]

(***************************************************************************)
(* The state of one run of a task.                                         *)
(***************************************************************************)
VARIABLES
    configFlags,    \* t.configFlags
    t,              \* the fields of Task set before Start: hosts, taskType, ...
    env,            \* files, terminal, environment variables
    err,            \* t.err
    sshClient,      \* t.sshClient
    sshAgent,       \* t.sshAgent
    agentDeferred,  \* the connection whose Close Start deferred, or NoConn
    agentOpened,    \* number of agent connections opened
    agentClosed,    \* the agent connections closed, in order
    password,       \* buildSSHClient's local password
    passwordErr,    \* buildSSHClient's local err, "unset" before getPassword
    auths,          \* buildSSHClient's local auths
    proxyAuths,     \* buildSSHClient's local proxyAuths
    prompts,        \* number of login-password prompts shown
    vaultAsked,     \* number of times the vault passphrase was asked for
    pcStart,        \* where Start (and HandleOutput in it) stands
    pcBatch,        \* where the BatchRun goroutine stands
    pcTimer,        \* where the task-timeout goroutine stands
    proc,           \* "running", "exited" or "panicked"
    allHosts,       \* BatchRun's local allHosts
    successCount,   \* BatchRun's local successCount
    failedCount,    \* BatchRun's local failedCount
    v,              \* BatchRun's loop variable
    result,         \* the scheduler's result channel
    resultClosed,   \* whether the scheduler closed it
    schedPending,   \* hosts the scheduler has not started
    schedRunning,   \* hosts whose RunSSH is in flight
    reported,       \* every result the scheduler produced, in order
    detailClosed,   \* whether t.detailOutput is closed
    taskOutput,     \* the buffer of t.taskOutput
    taskClosed,     \* whether t.taskOutput is closed
    detailSent,     \* every detailResult sent on t.detailOutput, in order
    taskSent,       \* every taskResult sent on t.taskOutput, in order
    logs,           \* what HandleOutput and the timer logged, in order
    stdout,         \* the hosts printed by the list-only branch
    checkedErr,     \* what CheckErr returned to the caller of Start
    fileSystem,     \* encrypt-file: the files "input" and "output" as they are now
    outputFile,     \* encrypt-file: the value of -O/--output-file
    writeOk,        \* encrypt-file: whether WriteTo succeeds
    pcVault,        \* encrypt-file: where the command stands
    fileContent,    \* encrypt-file: Run's local content
    encryptContent, \* encrypt-file: Run's local encryptContent
    encodeCalls,    \* encrypt-file: number of calls of aes.AES256Encode
    fileHandle,     \* encrypt-file: Run's local f, the file opened, "" for none
    screen,         \* encrypt-file: what was printed to stdout, in order
    vaultErr        \* encrypt-file: the error the command ended with

vars == <<configFlags, t, env, err, sshClient, sshAgent, agentDeferred,
          agentOpened, agentClosed, password, passwordErr, auths, proxyAuths,
          prompts, vaultAsked, pcStart, pcBatch, pcTimer, proc, allHosts, successCount,
          failedCount, v, result, resultClosed, schedPending, schedRunning,
          reported, detailClosed, taskOutput, taskClosed, detailSent, taskSent, logs,
          stdout, checkedErr, fileSystem, outputFile, writeOk, pcVault, fileContent,
          encryptContent, encodeCalls, fileHandle, screen, vaultErr>>

vaultVars == <<fileSystem, outputFile, writeOk, pcVault, fileContent, encryptContent,
               encodeCalls, fileHandle, screen, vaultErr>>

cfgVars == <<configFlags, t, env>>
authVars == <<sshClient, sshAgent, agentOpened, password, passwordErr, auths,
              proxyAuths, prompts, vaultAsked>>
schedVars == <<result, resultClosed, schedPending, schedRunning, reported>>
loopVars == <<allHosts, successCount, failedCount, v>>
sinkVars == <<detailClosed, taskOutput, taskClosed, detailSent, taskSent>>

\* batchssh.SuccessIdentifier and the status of a failed host
SuccessIdentifier == "Success"
FailedIdentifier == "Failed"

\* capacity of t.taskOutput: make(chan taskResult, 1)
TaskOutputCap == 1

NoResult == [Addr |-> <<>>, Status |-> "", Message |-> <<>>]

\* what the hosts of the orchestrator model print
SchedMessages == { <<"o", "k", NL>> }

(***************************************************************************)
(* Inputs.                                                                 *)
(***************************************************************************)
\* most workers drawn for --run.concurrency
MaxConcurrency == 2

NoFile == [readable |-> FALSE, content |-> <<>>]

\* a file that does not exist, in a directory where none can be created;
\* for a file that does not exist, writable says whether it can be created
NoVaultFile == [exists |-> FALSE, content |-> <<>>, readable |-> FALSE,
                writable |-> FALSE]

\* the two files encrypt-file deals with: its argument and another file
NoDisk == [input |-> NoVaultFile, output |-> NoVaultFile]

DefaultAuth == [User |-> "root", Password |-> <<>>, PassFile |-> "",
                AskPass |-> FALSE, IdentityFiles |-> <<>>, Passphrase |-> <<>>]

DefaultProxy == [Server |-> "", Password |-> <<>>, IdentityFiles |-> <<>>,
                 Passphrase |-> <<>>]

DefaultFlags == [Hosts |-> [File |-> "", List |-> FALSE],
                 Auth |-> DefaultAuth,
                 Run |-> [Sudo |-> FALSE, Concurrency |-> 1],
                 Proxy |-> DefaultProxy,
                 Timeout |-> [Task |-> 0]]

DefaultEnv == [hostsFile |-> NoFile, passFile |-> NoFile, vaultPass |-> <<"k">>,
               tty |-> [ok |-> TRUE, answer |-> <<"t">>], home |-> "home",
               keys |-> <<>>, keyPass |-> <<"s">>, authSock |-> "unset",
               dirExists |-> TRUE, mkdirOk |-> TRUE, proxyArgs |-> DefaultProxy,
               disk |-> NoDisk]

DefaultTask == [hosts |-> <<>>, taskType |-> CommandTask, command |-> "uptime",
                scriptFile |-> "", pushFiles |-> NilPushFiles,
                fetchFiles |-> <<>>, dstDir |-> ""]

\* configflags: the proxy's identity files and passphrase default to the
\* login user's when the command line gives none
Complete(cfg) ==
    [cfg EXCEPT
       !.Proxy.IdentityFiles = IF cfg.Proxy.IdentityFiles = <<>>
                               THEN cfg.Auth.IdentityFiles ELSE @,
       !.Proxy.Passphrase = IF cfg.Proxy.Passphrase = <<>>
                            THEN cfg.Auth.Passphrase ELSE @]

\* the positional arguments a task of the orchestrator model is given
TaskHosts == { <<>>, << <<"a">> >>, << <<GroupChar>>, <<"a">> >>, << <<BadChar>> >> }

\* the hosts files a task of the orchestrator model is given: none, one
\* that cannot be read, one that names host c
TaskHostsFiles ==
    { [name |-> "", file |-> NoFile],
      [name |-> "hosts", file |-> NoFile],
      [name |-> "hosts", file |-> [readable |-> TRUE, content |-> <<"c", NL>>]] }

\* the task kinds with their required inputs present or missing
TaskKinds ==
    { [DefaultTask EXCEPT !.command = c] : c \in {"", "uptime"} }
    \cup { [DefaultTask EXCEPT !.taskType = ScriptTask, !.command = ""] }
    \cup { [DefaultTask EXCEPT !.taskType = PushTask, !.command = "", !.pushFiles = f] :
             f \in {NilPushFiles, [isNil |-> FALSE, files |-> <<>>, zipFiles |-> <<>>]} }
    \cup { [DefaultTask EXCEPT !.taskType = FetchTask, !.command = "",
                               !.fetchFiles = f[1], !.dstDir = f[2]] :
             f \in { << <<>>, "dir" >>, << <<"f">>, "" >>, << <<"f">>, "dir" >> } }

\* how a task of the orchestrator model may authenticate: a password flag,
\* an agent (with a bastion), or nothing (the password is asked for)
TaskAuths ==
    { [pw |-> <<"p">>, sock |-> "unset", proxy |-> ""],
      [pw |-> <<>>, sock |-> "ok", proxy |-> "bastion"],
      [pw |-> <<>>, sock |-> "unset", proxy |-> ""] }


(***************************************************************************)
(* Init: the task as NewTask and the setters leave it, before Start.       *)
(***************************************************************************)
FreshTask ==
    /\ err = NoErr
    /\ sshClient = NoClient
    /\ sshAgent = NoConn
    /\ agentDeferred = NoConn
    /\ agentOpened = 0
    /\ agentClosed = <<>>
    /\ password = <<>>
    /\ passwordErr = "unset"
    /\ auths = <<>>
    /\ proxyAuths = <<>>
    /\ prompts = 0
    /\ vaultAsked = 0
    /\ pcTimer = "off"
    /\ proc = "running"
    /\ allHosts = <<>>
    /\ successCount = 0
    /\ failedCount = 0
    /\ v = NoResult
    /\ result = <<>>
    /\ resultClosed = FALSE
    /\ schedPending = <<>>
    /\ schedRunning = {}
    /\ reported = <<>>
    /\ detailClosed = FALSE
    /\ taskOutput = <<>>
    /\ taskClosed = FALSE
    /\ detailSent = <<>>
    /\ taskSent = <<>>
    /\ logs = <<>>
    /\ stdout = <<>>
    /\ checkedErr = "unchecked"

\* no encrypt-file command is running
VaultIdle ==
    /\ fileSystem = NoDisk
    /\ outputFile = ""
    /\ writeOk = TRUE
    /\ pcVault = "idle"
    /\ fileContent = <<>>
    /\ encryptContent = <<>>
    /\ encodeCalls = 0
    /\ fileHandle = ""
    /\ screen = <<>>
    /\ vaultErr = NoErr

Fresh == FreshTask /\ VaultIdle

Init ==
    /\ \E hf \in TaskHostsFiles, a \in TaskAuths, list \in BOOLEAN,
          timeout \in {0, 1}, k \in 1..MaxConcurrency, mk \in BOOLEAN :
          /\ configFlags = [DefaultFlags EXCEPT
                              !.Hosts = [File |-> hf.name, List |-> list],
                              !.Auth.Password = a.pw,
                              !.Proxy.Server = a.proxy,
                              !.Run.Concurrency = k,
                              !.Timeout.Task = timeout]
          /\ env = [DefaultEnv EXCEPT !.hostsFile = hf.file, !.authSock = a.sock,
                                      !.dirExists = mk, !.mkdirOk = mk]
    /\ \E hosts \in TaskHosts, kind \in TaskKinds :
          t = [kind EXCEPT !.hosts = hosts]
    /\ pcStart = "init"
    /\ pcBatch = "idle"
    /\ Fresh

(***************************************************************************)
(* Start.                                                                  *)
(***************************************************************************)
\* Start up to the call of HandleOutput: the deferred Close of the agent
\* connection (registered only if t.sshAgent is set by now), the BatchRun
\* goroutine, and the timer goroutine if a task timeout is configured.
Start ==
    /\ proc = "running"
    /\ pcStart = "init"
    /\ agentDeferred' = sshAgent
    /\ pcBatch' = "getHosts"
    /\ pcTimer' = IF configFlags.Timeout.Task > 0 THEN "sleep" ELSE "off"
    /\ pcStart' = "rangeDetail"
    /\ UNCHANGED <<vaultVars, cfgVars, err, authVars, agentClosed, proc, loopVars,
                   schedVars, sinkVars, logs, stdout, checkedErr>>

(***************************************************************************)
(* BatchRun, before fan-out.                                               *)
(***************************************************************************)
\* BatchRunGetHosts with the task-type preconditions validated first
BatchRunGetHostsPrecheckFirst ==
    /\ proc = "running"
    /\ pcBatch = "getHosts"
    /\ LET r == getAllHosts(t.hosts, configFlags.Hosts.File, env.hostsFile)
           c == Precondition(t, env)
       IN  IF c.err # NoErr
           THEN /\ err' = c.err
                /\ pcBatch' = "closeDetail"
                /\ UNCHANGED <<allHosts, stdout>>
           ELSE IF r.err # NoErr
           THEN /\ err' = r.err
                /\ pcBatch' = "closeDetail"
                /\ UNCHANGED <<allHosts, stdout>>
           ELSE IF configFlags.Hosts.List
           THEN /\ allHosts' = r.hosts
                /\ stdout' = r.hosts
                /\ pcBatch' = "closeDetail"
                /\ UNCHANGED err
           ELSE /\ allHosts' = r.hosts
                /\ pcBatch' = "precheck"
                /\ UNCHANGED <<err, stdout>>
    /\ UNCHANGED <<vaultVars, cfgVars, authVars, agentDeferred, agentClosed, pcStart,
                   pcTimer, proc, successCount, failedCount, v, schedVars,
                   sinkVars, logs, checkedErr>>

\* BatchRunGetHosts without the return that ends the list-only branch
BatchRunGetHostsListContinues ==
    /\ proc = "running"
    /\ pcBatch = "getHosts"
    /\ LET r == getAllHosts(t.hosts, configFlags.Hosts.File, env.hostsFile)
       IN  IF r.err # NoErr
           THEN /\ err' = r.err
                /\ pcBatch' = "closeDetail"
                /\ UNCHANGED <<allHosts, stdout>>
           ELSE /\ allHosts' = r.hosts
                /\ stdout' = IF configFlags.Hosts.List THEN r.hosts ELSE stdout
                /\ pcBatch' = "precheck"
                /\ UNCHANGED err
    /\ UNCHANGED <<vaultVars, cfgVars, authVars, agentDeferred, agentClosed, pcStart,
                   pcTimer, proc, successCount, failedCount, v, schedVars,
                   sinkVars, logs, checkedErr>>

\* getAllHosts, and the list-only branch
BatchRunGetHosts ==
    /\ proc = "running"
    /\ pcBatch = "getHosts"
    /\ LET r == getAllHosts(t.hosts, configFlags.Hosts.File, env.hostsFile)
       IN  IF r.err # NoErr
           THEN /\ err' = r.err
                /\ pcBatch' = "closeDetail"
                /\ UNCHANGED <<allHosts, stdout>>
           ELSE IF configFlags.Hosts.List
           THEN /\ allHosts' = r.hosts
                /\ stdout' = r.hosts
                /\ pcBatch' = "closeDetail"
                /\ UNCHANGED err
           ELSE /\ allHosts' = r.hosts
                /\ pcBatch' = "precheck"
                /\ UNCHANGED <<err, stdout>>
    /\ UNCHANGED <<vaultVars, cfgVars, authVars, agentDeferred, agentClosed, pcStart,
                   pcTimer, proc, successCount, failedCount, v, schedVars,
                   sinkVars, logs, checkedErr>>

\* BatchRunPrecheck without the return that follows the switch
BatchRunPrecheckNoReturn ==
    /\ proc = "running"
    /\ pcBatch = "precheck"
    /\ LET c == Precondition(t, env)
       IN  IF c.exit
           THEN /\ proc' = "exited"
                /\ UNCHANGED <<err, pcBatch>>
           ELSE /\ err' = IF c.err # NoErr THEN c.err ELSE err
                /\ pcBatch' = "getPassword"
                /\ UNCHANGED proc
    /\ UNCHANGED <<vaultVars, cfgVars, authVars, agentDeferred, agentClosed, pcStart,
                   pcTimer, loopVars, schedVars, sinkVars, logs, stdout,
                   checkedErr>>

\* the switch on the task type, and the return if it set t.err
BatchRunPrecheck ==
    /\ proc = "running"
    /\ pcBatch = "precheck"
    /\ LET c == Precondition(t, env)
       IN  IF c.exit
           THEN /\ proc' = "exited"
                /\ UNCHANGED <<err, pcBatch>>
           ELSE /\ err' = IF c.err # NoErr THEN c.err ELSE err
                /\ pcBatch' = IF err' # NoErr THEN "closeDetail" ELSE "getPassword"
                /\ UNCHANGED proc
    /\ UNCHANGED <<vaultVars, cfgVars, authVars, agentDeferred, agentClosed, pcStart,
                   pcTimer, loopVars, schedVars, sinkVars, logs, stdout,
                   checkedErr>>

(***************************************************************************)
(* buildSSHClient, one step per call it makes.                             *)
(***************************************************************************)
\* password, err := t.getPassword(); util.CheckErr(err) ends the process
BatchRunGetPassword ==
    /\ proc = "running"
    /\ pcBatch = "getPassword"
    /\ LET gp == getPassword(configFlags.Auth, env)
       IN  /\ prompts' = prompts + gp.prompts
           /\ vaultAsked' = vaultAsked + gp.vaultAsked
           /\ IF gp.exit
              THEN /\ proc' = "exited"
                   /\ UNCHANGED <<password, passwordErr, pcBatch>>
              ELSE IF gp.err # NoErr
              THEN /\ password' = gp.password
                   /\ passwordErr' = gp.err
                   /\ proc' = "exited"
                   /\ UNCHANGED pcBatch
              ELSE /\ password' = gp.password
                   /\ passwordErr' = gp.err
                   /\ pcBatch' = "getAuth"
                   /\ UNCHANGED proc
    /\ UNCHANGED <<vaultVars, cfgVars, err, sshClient, sshAgent, agentOpened, auths,
                   proxyAuths, agentDeferred, agentClosed, pcStart, pcTimer,
                   loopVars, schedVars, sinkVars, logs, stdout, checkedErr>>

BatchRunGetAuth ==
    /\ proc = "running"
    /\ pcBatch = "getAuth"
    /\ LET am == getSSHAuthMethods(password, configFlags, env, sshAgent, agentOpened)
       IN  /\ prompts' = prompts + am.prompts
           /\ vaultAsked' = vaultAsked + am.vaultAsked
           /\ auths' = am.auths
           /\ password' = am.password
           /\ sshAgent' = am.sshAgent
           /\ agentOpened' = am.opened
           /\ IF am.exit
              THEN proc' = "exited" /\ UNCHANGED pcBatch
              ELSE /\ pcBatch' = IF configFlags.Proxy.Server # ""
                                 THEN "getProxyAuth" ELSE "run"
                   /\ UNCHANGED proc
    /\ UNCHANGED <<vaultVars, cfgVars, err, sshClient, passwordErr, proxyAuths,
                   agentDeferred, agentClosed, pcStart, pcTimer, loopVars,
                   schedVars, sinkVars, logs, stdout, checkedErr>>

BatchRunGetProxyAuth ==
    /\ proc = "running"
    /\ pcBatch = "getProxyAuth"
    /\ LET pm == getProxySSHAuthMethods(password, configFlags, env, sshAgent, agentOpened)
       IN  /\ vaultAsked' = vaultAsked + pm.vaultAsked
           /\ proxyAuths' = pm.auths
           /\ sshAgent' = pm.sshAgent
           /\ agentOpened' = pm.opened
           /\ IF pm.exit
              THEN proc' = "exited" /\ UNCHANGED pcBatch
              ELSE pcBatch' = "run" /\ UNCHANGED proc
    /\ UNCHANGED <<vaultVars, cfgVars, err, sshClient, password, passwordErr, auths,
                   prompts, agentDeferred, agentClosed, pcStart, pcTimer, loopVars,
                   schedVars, sinkVars, logs, stdout, checkedErr>>

\* buildSSHClient's NewClient with one worker more than --run.concurrency
BatchRunRunExtraWorker ==
    /\ proc = "running"
    /\ pcBatch = "run"
    /\ sshClient' = NewClient(configFlags.Auth.User, password, auths,
                              configFlags.Run.Concurrency + 1,
                              configFlags.Proxy.Server, proxyAuths)
    /\ schedPending' = allHosts
    /\ successCount' = 0
    /\ failedCount' = 0
    /\ pcBatch' = "recv"
    /\ UNCHANGED <<vaultVars, cfgVars, err, sshAgent, agentOpened, password, passwordErr,
                   auths, proxyAuths, prompts, vaultAsked, agentDeferred, agentClosed,
                   pcStart, pcTimer, proc, allHosts, v, result, resultClosed,
                   schedRunning, reported, sinkVars, logs, stdout, checkedErr>>

\* batchssh.NewClient, and t.sshClient.BatchRun(allHosts, t), which hands
\* the hosts to the scheduler
BatchRunRun ==
    /\ proc = "running"
    /\ pcBatch = "run"
    /\ sshClient' = NewClient(configFlags.Auth.User, password, auths,
                              configFlags.Run.Concurrency,
                              configFlags.Proxy.Server, proxyAuths)
    /\ schedPending' = allHosts
    /\ successCount' = 0
    /\ failedCount' = 0
    /\ pcBatch' = "recv"
    /\ UNCHANGED <<vaultVars, cfgVars, err, sshAgent, agentOpened, password, passwordErr,
                   auths, proxyAuths, prompts, vaultAsked, agentDeferred, agentClosed,
                   pcStart, pcTimer, proc, allHosts, v, result, resultClosed,
                   schedRunning, reported, sinkVars, logs, stdout, checkedErr>>

(***************************************************************************)
(* The scheduler (batchssh.Client.BatchRun): hosts are started in input    *)
(* order, at most sshClient.concurrency at a time; each host that ends     *)
(* puts one result on the result channel, which holds a result for every   *)
(* host; the channel is closed after the last one.                         *)
(***************************************************************************)
Scheduling == proc = "running" /\ pcBatch \in {"recv", "send"}

SchedStart ==
    /\ Scheduling
    /\ schedPending # <<>>
    /\ Cardinality(schedRunning) < sshClient.concurrency
    /\ schedRunning' = schedRunning \cup {Head(schedPending)}
    /\ schedPending' = Tail(schedPending)
    /\ UNCHANGED <<vaultVars, cfgVars, err, authVars, agentDeferred, agentClosed, pcStart,
                   pcBatch, pcTimer, proc, loopVars, result, resultClosed,
                   reported, sinkVars, logs, stdout, checkedErr>>

\* Task.RunSSH returned for host h: with no error (Success) or with one
SchedFinish ==
    /\ Scheduling
    /\ \E h \in schedRunning, status \in {SuccessIdentifier, FailedIdentifier},
          msg \in SchedMessages :
          /\ schedRunning' = schedRunning \ {h}
          /\ result' = Append(result, [Addr |-> h, Status |-> status,
                                       Message |-> msg])
          /\ reported' = Append(reported, [Addr |-> h, Status |-> status,
                                           Message |-> msg])
    /\ UNCHANGED <<vaultVars, cfgVars, err, authVars, agentDeferred, agentClosed, pcStart,
                   pcBatch, pcTimer, proc, loopVars, resultClosed,
                   schedPending, sinkVars, logs, stdout, checkedErr>>

SchedClose ==
    /\ Scheduling
    /\ schedPending = <<>>
    /\ schedRunning = {}
    /\ ~resultClosed
    /\ resultClosed' = TRUE
    /\ UNCHANGED <<vaultVars, cfgVars, err, authVars, agentDeferred, agentClosed, pcStart,
                   pcBatch, pcTimer, proc, loopVars, result, schedPending,
                   schedRunning, reported, sinkVars, logs, stdout, checkedErr>>

(***************************************************************************)
(* BatchRun, the loop over the results.                                    *)
(***************************************************************************)
\* the detailResult BatchRun builds from a result of the scheduler
detailResultWrongStatus(res) ==
    [hostname |-> res.Addr, status |-> SuccessIdentifier, output |-> res.Message]

detailResult(res) ==
    [hostname |-> res.Addr, status |-> res.Status, output |-> res.Message]

\* the counters after a result: <<successCount, failedCount>>
CountedAllSuccess(res, sc, fc) == <<sc + 1, fc>>

Counted(res, sc, fc) ==
    IF res.Status = SuccessIdentifier THEN <<sc + 1, fc>> ELSE <<sc, fc + 1>>

\* for v := range result: a result is received and counted.  A variant
\* that leaves the loop at the first failed host comes first.
BatchRunRecvStopOnFailure ==
    /\ proc = "running"
    /\ pcBatch = "recv"
    /\ result # <<>>
    /\ v' = Head(result)
    /\ result' = Tail(result)
    /\ successCount' = Counted(v', successCount, failedCount)[1]
    /\ failedCount' = Counted(v', successCount, failedCount)[2]
    /\ pcBatch' = IF v'.Status = SuccessIdentifier THEN "send" ELSE "summary"
    /\ UNCHANGED <<vaultVars, cfgVars, err, authVars, agentDeferred, agentClosed, pcStart,
                   pcTimer, proc, allHosts, resultClosed, schedPending,
                   schedRunning, reported, sinkVars, logs, stdout, checkedErr>>

BatchRunRecv ==
    /\ proc = "running"
    /\ pcBatch = "recv"
    /\ result # <<>>
    /\ v' = Head(result)
    /\ result' = Tail(result)
    /\ successCount' = Counted(v', successCount, failedCount)[1]
    /\ failedCount' = Counted(v', successCount, failedCount)[2]
    /\ pcBatch' = "send"
    /\ UNCHANGED <<vaultVars, cfgVars, err, authVars, agentDeferred, agentClosed, pcStart,
                   pcTimer, proc, allHosts, resultClosed, schedPending,
                   schedRunning, reported, sinkVars, logs, stdout, checkedErr>>

\* the result channel is drained and closed: the loop ends
BatchRunLoopEnd ==
    /\ proc = "running"
    /\ pcBatch = "recv"
    /\ result = <<>>
    /\ resultClosed
    /\ pcBatch' = "summary"
    /\ UNCHANGED <<vaultVars, cfgVars, err, authVars, agentDeferred, agentClosed, pcStart,
                   pcTimer, proc, loopVars, schedVars, sinkVars, logs, stdout,
                   checkedErr>>

\* what HandleOutput logs for a detailResult
DetailLog(res) ==
    [kind |-> "detail", hostname |-> res.hostname, status |-> res.status,
     output |-> RenderOutput(res.output),
     level |-> IF res.status = SuccessIdentifier THEN "info" ELSE "error"]

\* t.detailOutput <- detailResult{...} in BatchRun meets the receive of
\* HandleOutput's first loop: the channel is unbuffered, so the send
\* completes only when HandleOutput stands at the receive.
SendDetail ==
    /\ proc = "running"
    /\ pcBatch = "send"
    /\ pcStart = "rangeDetail"
    /\ ~detailClosed
    /\ detailSent' = Append(detailSent, detailResult(v))
    /\ pcStart' = "logDetail"
    /\ pcBatch' = "recv"
    /\ UNCHANGED <<vaultVars, cfgVars, err, authVars, agentDeferred, agentClosed,
                   pcTimer, proc, loopVars, schedVars, detailClosed, taskOutput,
                   taskClosed, taskSent, logs, stdout, checkedErr>>

\* the body of HandleOutput's first loop: the detail just received is
\* rendered and logged
HandleDetail ==
    /\ proc = "running"
    /\ pcStart = "logDetail"
    /\ logs' = Append(logs, DetailLog(detailSent[Len(detailSent)]))
    /\ pcStart' = "rangeDetail"
    /\ UNCHANGED <<vaultVars, cfgVars, err, authVars, agentDeferred, agentClosed,
                   pcBatch, pcTimer, proc, loopVars, schedVars, sinkVars, stdout,
                   checkedErr>>

\* a send on the closed t.detailOutput panics
SendDetailClosed ==
    /\ proc = "running"
    /\ pcBatch = "send"
    /\ detailClosed
    /\ proc' = "panicked"
    /\ UNCHANGED <<vaultVars, cfgVars, err, authVars, agentDeferred, agentClosed, pcStart,
                   pcBatch, pcTimer, loopVars, schedVars, sinkVars, logs,
                   stdout, checkedErr>>

\* t.taskOutput <- taskResult{...}; a send on the closed channel panics
BatchRunSummary ==
    /\ proc = "running"
    /\ pcBatch = "summary"
    /\ taskClosed \/ Len(taskOutput) < TaskOutputCap
    /\ IF taskClosed
       THEN /\ proc' = "panicked"
            /\ UNCHANGED <<taskOutput, taskSent, pcBatch>>
       ELSE /\ taskOutput' = Append(taskOutput,
                  [success |-> successCount, failure |-> failedCount])
            /\ taskSent' = Append(taskSent,
                  [success |-> successCount, failure |-> failedCount])
            /\ pcBatch' = "closeDetail"
            /\ UNCHANGED proc
    /\ UNCHANGED <<vaultVars, cfgVars, err, authVars, agentDeferred, agentClosed, pcStart,
                   pcTimer, loopVars, schedVars, detailClosed, taskClosed,
                   detailSent, logs, stdout, checkedErr>>

\* the deferred close(t.detailOutput) of the goroutine Start launched; the
\* close of a closed channel panics
BatchRunCloseDetail ==
    /\ proc = "running"
    /\ pcBatch = "closeDetail"
    /\ IF detailClosed
       THEN proc' = "panicked" /\ UNCHANGED <<detailClosed, pcBatch>>
       ELSE detailClosed' = TRUE /\ pcBatch' = "closeTask" /\ UNCHANGED proc
    /\ UNCHANGED <<vaultVars, cfgVars, err, authVars, agentDeferred, agentClosed, pcStart,
                   pcTimer, loopVars, schedVars, taskOutput, taskClosed,
                   detailSent, taskSent, logs, stdout, checkedErr>>

\* BatchRun returning without its deferred close(t.taskOutput)
BatchRunCloseTaskForgotten ==
    /\ proc = "running"
    /\ pcBatch = "closeTask"
    /\ pcBatch' = "done"
    /\ UNCHANGED <<vaultVars, cfgVars, err, authVars, agentDeferred, agentClosed, pcStart,
                   pcTimer, proc, loopVars, schedVars, sinkVars, logs, stdout,
                   checkedErr>>

\* the deferred close(t.taskOutput)
BatchRunCloseTask ==
    /\ proc = "running"
    /\ pcBatch = "closeTask"
    /\ IF taskClosed
       THEN proc' = "panicked" /\ UNCHANGED <<taskClosed, pcBatch>>
       ELSE taskClosed' = TRUE /\ pcBatch' = "done" /\ UNCHANGED proc
    /\ UNCHANGED <<vaultVars, cfgVars, err, authVars, agentDeferred, agentClosed, pcStart,
                   pcTimer, loopVars, schedVars, detailClosed, taskOutput,
                   detailSent, taskSent, logs, stdout, checkedErr>>

(***************************************************************************)
(* The task-timeout goroutine.                                             *)
(***************************************************************************)
\* time.Sleep returned: the warning is logged
TimerFire ==
    /\ proc = "running"
    /\ pcTimer = "sleep"
    /\ logs' = Append(logs, [kind |-> "timeout"])
    /\ pcTimer' = "closeDetail"
    /\ UNCHANGED <<vaultVars, cfgVars, err, authVars, agentDeferred, agentClosed, pcStart,
                   pcBatch, proc, loopVars, schedVars, sinkVars, stdout,
                   checkedErr>>

TimerCloseDetail ==
    /\ proc = "running"
    /\ pcTimer = "closeDetail"
    /\ IF detailClosed
       THEN proc' = "panicked" /\ UNCHANGED <<detailClosed, pcTimer>>
       ELSE detailClosed' = TRUE /\ pcTimer' = "closeTask" /\ UNCHANGED proc
    /\ UNCHANGED <<vaultVars, cfgVars, err, authVars, agentDeferred, agentClosed, pcStart,
                   pcBatch, loopVars, schedVars, taskOutput, taskClosed,
                   detailSent, taskSent, logs, stdout, checkedErr>>

TimerCloseTask ==
    /\ proc = "running"
    /\ pcTimer = "closeTask"
    /\ IF taskClosed
       THEN proc' = "panicked" /\ UNCHANGED <<taskClosed, pcTimer>>
       ELSE taskClosed' = TRUE /\ pcTimer' = "done" /\ UNCHANGED proc
    /\ UNCHANGED <<vaultVars, cfgVars, err, authVars, agentDeferred, agentClosed, pcStart,
                   pcBatch, loopVars, schedVars, detailClosed, taskOutput,
                   detailSent, taskSent, logs, stdout, checkedErr>>

(***************************************************************************)
(* HandleOutput, and the return of Start.                                  *)
(***************************************************************************)
\* HandleOutput leaving its first loop without waiting for the close of
\* t.detailOutput
HandleDetailEndEarly ==
    /\ proc = "running"
    /\ pcStart = "rangeDetail"
    /\ pcStart' = "rangeTask"
    /\ UNCHANGED <<vaultVars, cfgVars, err, authVars, agentDeferred, agentClosed, pcBatch,
                   pcTimer, proc, loopVars, schedVars, sinkVars, logs, stdout,
                   checkedErr>>

\* the first loop ends when t.detailOutput is closed
HandleDetailEnd ==
    /\ proc = "running"
    /\ pcStart = "rangeDetail"
    /\ detailClosed
    /\ pcStart' = "rangeTask"
    /\ UNCHANGED <<vaultVars, cfgVars, err, authVars, agentDeferred, agentClosed, pcBatch,
                   pcTimer, proc, loopVars, schedVars, sinkVars, logs, stdout,
                   checkedErr>>

\* the second loop logs a summary it receives
HandleTask ==
    /\ proc = "running"
    /\ pcStart = "rangeTask"
    /\ taskOutput # <<>>
    /\ logs' = Append(logs, [kind |-> "summary",
                             success |-> Head(taskOutput).success,
                             failure |-> Head(taskOutput).failure])
    /\ taskOutput' = Tail(taskOutput)
    /\ UNCHANGED <<vaultVars, cfgVars, err, authVars, agentDeferred, agentClosed, pcStart,
                   pcBatch, pcTimer, proc, loopVars, schedVars, detailClosed,
                   taskClosed, detailSent, taskSent, stdout, checkedErr>>

\* the second loop ends when t.taskOutput is drained and closed; Start
\* returns, running the Close it deferred
HandleTaskEnd ==
    /\ proc = "running"
    /\ pcStart = "rangeTask"
    /\ taskOutput = <<>>
    /\ taskClosed
    /\ pcStart' = "returned"
    /\ agentClosed' = IF agentDeferred # NoConn
                      THEN Append(agentClosed, agentDeferred) ELSE agentClosed
    /\ UNCHANGED <<vaultVars, cfgVars, err, authVars, agentDeferred, pcBatch, pcTimer,
                   proc, loopVars, schedVars, sinkVars, logs, stdout,
                   checkedErr>>

\* Task.CheckErr
CheckErr == err

\* the caller of Start asks CheckErr and the process ends
Exit ==
    /\ proc = "running"
    /\ pcStart = "returned"
    /\ checkedErr' = CheckErr
    /\ proc' = "exited"
    /\ UNCHANGED <<vaultVars, cfgVars, err, authVars, agentDeferred, agentClosed, pcStart,
                   pcBatch, pcTimer, loopVars, schedVars, sinkVars, logs,
                   stdout>>

Next ==
    \/ Start
    \/ BatchRunGetHosts
    \/ BatchRunPrecheck
    \/ BatchRunGetPassword
    \/ BatchRunGetAuth
    \/ BatchRunGetProxyAuth
    \/ BatchRunRun
    \/ SchedStart
    \/ SchedFinish
    \/ SchedClose
    \/ BatchRunRecv
    \/ BatchRunLoopEnd
    \/ SendDetail
    \/ HandleDetail
    \/ SendDetailClosed
    \/ BatchRunSummary
    \/ BatchRunCloseDetail
    \/ BatchRunCloseTask
    \/ TimerFire
    \/ TimerCloseDetail
    \/ TimerCloseTask
    \/ HandleDetailEnd
    \/ HandleTask
    \/ HandleTaskEnd
    \/ Exit

Spec == Init /\ [][Next]_vars

(***************************************************************************)
(* getAllHosts on its own: every positional argument list and every hosts  *)
(* file within the bounds, and the one step of BatchRun that calls it.     *)
(***************************************************************************)
ArgPatterns == { <<SP>>, <<"b", SP>>, <<GroupChar>>, <<BadChar>> }
FileChars == {"a", GroupChar, BadChar, SP, NL}

HostInit ==
    /\ \E hosts \in SeqsUpTo(ArgPatterns, MaxArgs) :
          t = [DefaultTask EXCEPT !.hosts = hosts]
    /\ \E name \in {"", "hosts"} :
          /\ configFlags = [DefaultFlags EXCEPT !.Hosts.File = name]
          /\ IF name = ""
             THEN env = DefaultEnv
             ELSE \/ env = DefaultEnv
                  \/ \E content \in SeqsUpTo(FileChars, MaxFileLen) :
                        env = [DefaultEnv EXCEPT
                                 !.hostsFile = [readable |-> TRUE, content |-> content]]
    /\ pcStart = "rangeDetail"
    /\ pcBatch = "getHosts"
    /\ Fresh

HostNext == BatchRunGetHosts

HostSpec == HostInit /\ [][HostNext]_vars

\* the patterns getAllHosts is given: the arguments, then the lines of the
\* hosts file
GivenPatterns ==
    t.hosts \o (IF configFlags.Hosts.File # ""
                THEN Split(TrimSuffixNL(env.hostsFile.content)) ELSE <<>>)

IsBlank(s) == \A i \in 1..Len(s) : s[i] \in WhiteSpace

\* what one pattern contributes
Expansion(p) == IF IsBlank(p) THEN <<>> ELSE PatternToHosts(TrimSpace(p)).hosts

Concatenation == Flatten([i \in 1..Len(GivenPatterns) |-> Expansion(GivenPatterns[i])])

FirstIndex(s, x) == CHOOSE i \in 1..Len(s) : s[i] = x /\ \A j \in 1..(i - 1) : s[j] # x

GotHosts == pcBatch # "getHosts" /\ err = NoErr

\* C8: the list getAllHosts returns is the stable deduplication of the
\* concatenation of the expansions of the arguments and then of the lines of
\* the hosts file: it holds exactly the hosts of the concatenation, none
\* empty, none twice, in the order of their first occurrence.
HostsStableDedup ==
    GotHosts =>
        /\ Range(allHosts) = Range(Concatenation)
        /\ \A i \in 1..Len(allHosts) : allHosts[i] # <<>>
        /\ \A i, j \in 1..Len(allHosts) : i < j => allHosts[i] # allHosts[j]
        /\ \A i, j \in 1..Len(allHosts) :
              i < j => FirstIndex(Concatenation, allHosts[i])
                         < FirstIndex(Concatenation, allHosts[j])

\* a duplicate was dropped from hosts of the arguments and of the file
HostsStableDedupWitness ==
    /\ GotHosts
    /\ t.hosts # <<>>
    /\ configFlags.Hosts.File # ""
    /\ Len(allHosts) >= 2
    /\ Len(Concatenation) > Len(allHosts)
    /\ allHosts[1] = <<"b">>

RECURSIVE Join(_)
Join(lines) ==
    IF lines = <<>> THEN <<>>
    ELSE IF Len(lines) = 1 THEN Head(lines)
    ELSE Head(lines) \o <<NL>> \o Join(Tail(lines))

\* the hosts file with its blank and all-whitespace lines removed
WithoutBlankLines(content) ==
    Join(SelectSeq(Split(content), LAMBDA line : ~IsBlank(line)))

\* C9: blank and all-whitespace lines of the hosts file, and blank
\* arguments, contribute nothing and cause no error: getAllHosts gives the
\* same hosts, or the same error, as on the input without them.
BlankLinesIgnored ==
    pcBatch # "getHosts" =>
        LET plain == getAllHosts(
                SelectSeq(t.hosts, LAMBDA p : ~IsBlank(p)),
                configFlags.Hosts.File,
                [readable |-> env.hostsFile.readable,
                 content |-> WithoutBlankLines(env.hostsFile.content)])
        IN  /\ err = plain.err
            /\ allHosts = plain.hosts

\* hosts were read from a file that holds a blank line between two hosts
BlankLinesIgnoredWitness ==
    /\ GotHosts
    /\ configFlags.Hosts.File # ""
    /\ Len(allHosts) >= 2
    /\ \E i \in 2..(Len(Split(env.hostsFile.content)) - 1) :
          IsBlank(Split(env.hostsFile.content)[i])
    /\ WithoutBlankLines(env.hostsFile.content) # env.hostsFile.content

(***************************************************************************)
(* Properties of the orchestrator.                                         *)
(***************************************************************************)
\* BatchRun built the client and handed the hosts to the scheduler
FannedOut == sshClient # NoClient

\* BatchRun is past its loop, or returned before it
AfterLoop == pcBatch \in {"summary", "closeDetail", "closeTask", "done"}
Returning == pcBatch \in {"closeDetail", "closeTask", "done"}

\* the timer goroutine woke up and logged the timeout
TimerFired == pcTimer \in {"closeDetail", "closeTask", "done"}

StartReturned == pcStart = "returned"

DetailsFor(h) == {i \in 1..Len(detailSent) : detailSent[i].hostname = h}
WithStatus(s, status) == {i \in 1..Len(s) : s[i].status = status}
LogsOfKind(kind) == {i \in 1..Len(logs) : logs[i].kind = kind}

\* C1: every detailResult sent is a result the scheduler reported, with its
\* host and status; no host gets two; and once the loop of BatchRun is over
\* (and whenever Start returns without the timer having fired) every host of
\* the deduplicated list has exactly one.
EachHostOneDetail ==
    /\ \A i \in 1..Len(detailSent) :
          \E j \in 1..Len(reported) :
              /\ detailSent[i].hostname = reported[j].Addr
              /\ detailSent[i].status = reported[j].Status
    /\ \A i \in 1..Len(detailSent) : detailSent[i].hostname \in Range(allHosts)
    /\ \A h \in Range(allHosts) : Cardinality(DetailsFor(h)) <= 1
    /\ FannedOut /\ (AfterLoop \/ (StartReturned /\ ~TimerFired)) =>
          \A h \in Range(allHosts) : Cardinality(DetailsFor(h)) = 1

\* three hosts, one of them failed, each got its detailResult and Start
\* returned with no timer involved
EachHostOneDetailWitness ==
    /\ StartReturned
    /\ pcTimer = "off"
    /\ Len(allHosts) = 3
    /\ Len(detailSent) = 3
    /\ WithStatus(detailSent, FailedIdentifier) # {}
    /\ WithStatus(detailSent, SuccessIdentifier) # {}

\* C2: a task that fans out sends at most one summary; once BatchRun has
\* left its loop and sent it, it is the only one, its successCount is the
\* number of Success results sent, its failureCount the number of the
\* others, and they add up to the number of hosts; when Start returns
\* without the timer having fired, HandleOutput logged exactly that summary.
SummaryCounts ==
    /\ Len(taskSent) <= 1
    /\ Len(taskSent) = 1 => FannedOut /\ Returning
    /\ FannedOut /\ Returning =>
          /\ Len(taskSent) = 1
          /\ taskSent[1].success = Cardinality(WithStatus(detailSent, SuccessIdentifier))
          /\ taskSent[1].failure =
                Len(detailSent) - Cardinality(WithStatus(detailSent, SuccessIdentifier))
          /\ taskSent[1].success + taskSent[1].failure = Len(allHosts)
    /\ FannedOut /\ StartReturned /\ ~TimerFired =>
          /\ Cardinality(LogsOfKind("summary")) = 1
          /\ \A i \in LogsOfKind("summary") :
                /\ logs[i].success = taskSent[1].success
                /\ logs[i].failure = taskSent[1].failure

\* a summary of two successes and one failure was logged, no timer involved
SummaryCountsWitness ==
    /\ StartReturned
    /\ pcTimer = "off"
    /\ \E i \in LogsOfKind("summary") : logs[i].success = 2 /\ logs[i].failure = 1

\* C3 as stated: when the timer fires before the batch has completed (a
\* per-host result is still forwarded after the timeout warning), no summary
\* is emitted.
TimeoutEmitsNoSummary ==
    (\E i \in LogsOfKind("timeout"), j \in LogsOfKind("detail") : i < j) =>
        taskSent = <<>>

\* C4: a failed host does not stop the batch and does not set the task
\* error: with failures among the results, t.err and what CheckErr returns
\* stay nil, and when the loop is over every result of the scheduler, those
\* after a failure included, was counted and forwarded.
FailureDoesNotStop ==
    /\ WithStatus(detailSent, FailedIdentifier) # {} \/ failedCount > 0 =>
          /\ err = NoErr
          /\ checkedErr \in {"unchecked", NoErr}
    /\ FannedOut /\ AfterLoop =>
          /\ Len(reported) = Len(allHosts)
          /\ successCount + failedCount = Len(reported)
          /\ Len(detailSent) = Len(reported)
          /\ failedCount = Cardinality({i \in 1..Len(reported) :
                                          reported[i].Status # SuccessIdentifier})

\* the first host failed, two more results followed it, and CheckErr
\* returned nil
FailureDoesNotStopWitness ==
    /\ Len(detailSent) = 3
    /\ detailSent[1].status = FailedIdentifier
    /\ detailSent[3].status = SuccessIdentifier
    /\ failedCount = 1
    /\ checkedErr = NoErr

\* what the inputs of the task decide before fan-out
HostExpansion == getAllHosts(t.hosts, configFlags.Hosts.File, env.hostsFile)
HostExpansionFails == HostExpansion.err # NoErr
PreconditionFails == Precondition(t, env).err # NoErr

\* nothing of the steps after the preconditions has happened
NothingBuilt ==
    /\ pcBatch \in {"idle", "getHosts", "precheck", "closeDetail", "closeTask", "done"}
    /\ prompts = 0
    /\ vaultAsked = 0
    /\ agentOpened = 0
    /\ sshAgent = NoConn
    /\ password = <<>>
    /\ passwordErr = "unset"
    /\ auths = <<>>
    /\ proxyAuths = <<>>
    /\ sshClient = NoClient
    /\ schedPending = <<>>
    /\ schedRunning = {}
    /\ reported = <<>>
    /\ detailSent = <<>>
    /\ taskSent = <<>>
    /\ LogsOfKind("detail") = {}
    /\ LogsOfKind("summary") = {}

\* Start returned, or the process is alive and some step of the run is
\* still to be taken: Start neither hangs nor is cut short
ReturnsOrRuns == StartReturned \/ (proc = "running" /\ ENABLED Next)

PreconditionsFirst ==
    PreconditionFails /\ Returning => err = Precondition(t, env).err

\* C6 as amended: hosts are expanded and the list-only flag is handled before
\* the preconditions are validated: a task whose required input is missing
\* ends with the expansion error if the expansion fails, with no error (and
\* the hosts printed) if the list-only flag is on, and with the precondition
\* error otherwise.
PreconditionsAfterHostsAndList ==
    PreconditionFails /\ Returning =>
        /\ err = IF HostExpansionFails THEN HostExpansion.err
                 ELSE IF configFlags.Hosts.List THEN NoErr
                 ELSE Precondition(t, env).err
        /\ stdout = IF ~HostExpansionFails /\ configFlags.Hosts.List
                    THEN HostExpansion.hosts ELSE <<>>

\* a push task without files, with the list-only flag on, printed its hosts
\* and ended without error
PreconditionsAfterHostsAndListWitness ==
    /\ StartReturned
    /\ PreconditionFails
    /\ t.taskType = PushTask
    /\ configFlags.Hosts.List
    /\ Len(stdout) = 2
    /\ checkedErr = NoErr

\* C7: with the list-only flag on and hosts that expand, the task prints
\* the expanded list and does nothing else, and the task error stays unset.
ListOnlyDoesNothingElse ==
    configFlags.Hosts.List /\ ~HostExpansionFails =>
        /\ NothingBuilt
        /\ pcBatch # "precheck"
        /\ err = NoErr
        /\ checkedErr \in {"unchecked", NoErr}
        /\ stdout = IF Returning THEN RemoveDuplStr(Concatenation) ELSE <<>>

\* three hosts were listed by a task that could have run (its command is
\* set), and Start returned
ListOnlyDoesNothingElseWitness ==
    /\ StartReturned
    /\ configFlags.Hosts.List
    /\ ~PreconditionFails
    /\ stdout = << <<"a">>, <<"b">>, <<"c">> >>
    /\ checkedErr = NoErr

(***************************************************************************)
(* buildSSHClient on its own: the sources of the login password in every   *)
(* combination, and the three steps that resolve the credentials.          *)
(***************************************************************************)
\* a vault ciphertext of plaintext q, sealed with passphrase k
Sealed(plain) == <<VaultHeader, "k">> \o plain

PasswordFlags == { <<>>, <<"p">>, Sealed(<<"q">>) }

PassFiles ==
    { [name |-> "", file |-> NoFile],
      [name |-> "pass", file |-> NoFile] }
    \cup { [name |-> "pass", file |-> [readable |-> TRUE, content |-> c]] :
             c \in { <<"f", NL>>, <<SP, "f", SP, NL>>, <<NL>>,
                     Sealed(<<"g">>) \o <<NL>> } }

Terminals == { [ok |-> TRUE, answer |-> <<>>], [ok |-> TRUE, answer |-> <<"t">>],
               [ok |-> TRUE, answer |-> Sealed(<<"u">>)],
               [ok |-> FALSE, answer |-> <<>>] }

VaultPasses == { <<"k">>, <<"w">> }

AuthInit ==
    /\ \E pw \in PasswordFlags, pf \in PassFiles, ask \in BOOLEAN,
          tty \in Terminals, vp \in VaultPasses, sudo \in BOOLEAN,
          sock \in {"unset", "ok", "refused"}, proxy \in {"", "bastion"} :
          /\ configFlags = [DefaultFlags EXCEPT
                              !.Auth.Password = pw,
                              !.Auth.PassFile = pf.name,
                              !.Auth.AskPass = ask,
                              !.Run.Sudo = sudo,
                              !.Proxy.Server = proxy]
          /\ env = [DefaultEnv EXCEPT !.passFile = pf.file, !.tty = tty,
                                      !.vaultPass = vp, !.authSock = sock]
    /\ t = [DefaultTask EXCEPT !.hosts = << <<"a">> >>]
    /\ pcStart = "rangeDetail"
    /\ pcBatch = "getPassword"
    /\ Fresh

AuthNext ==
    \/ BatchRunGetPassword
    \/ BatchRunGetAuth
    \/ BatchRunGetProxyAuth

AuthSpec == AuthInit /\ [][AuthNext]_vars

\* a string without its leading and trailing white space
Trimmed(x) ==
    LET keep == {i \in 1..Len(x) : x[i] \notin WhiteSpace}
        first == CHOOSE i \in keep : \A j \in keep : i <= j
        last == CHOOSE i \in keep : \A j \in keep : j <= i
    IN  IF keep = {} THEN <<>> ELSE SubSeq(x, first, last)

\* what a password source stands for: a vault ciphertext for its plaintext
PlainOf(x) == IF x # <<>> /\ Head(x) = VaultHeader THEN SubSeq(x, 3, Len(x)) ELSE x

PassFilePresent == configFlags.Auth.PassFile # "" /\ env.passFile.readable

\* the value of the highest-priority source of the login password that is
\* present: the prompt, then the flag, then the password file
HighestPriorityPassword ==
    IF configFlags.Auth.AskPass THEN env.tty.answer
    ELSE IF configFlags.Auth.Password # <<>> THEN PlainOf(configFlags.Auth.Password)
    ELSE IF PassFilePresent THEN PlainOf(Trimmed(env.passFile.content))
    ELSE <<>>

\* getPassword returned (with or without the error of an unreadable file)
\* and getSSHAuthMethods has not run yet
GetPasswordReturned ==
    passwordErr # "unset" /\ pcBatch \in {"getPassword", "getAuth"}

\* C10: in every combination of prompt, flag and password file, what
\* getPassword returns is the value of the highest-priority source that is
\* present, and the empty string when none is.
PasswordPriority ==
    GetPasswordReturned => password = HighestPriorityPassword

\* the flag won over a readable password file that holds another password
PasswordPriorityWitness ==
    /\ pcBatch = "getAuth"
    /\ ~configFlags.Auth.AskPass
    /\ configFlags.Auth.Password = <<"p">>
    /\ PassFilePresent
    /\ Trimmed(env.passFile.content) = <<"f">>
    /\ password = <<"p">>

\* the string of the highest-priority source of the login password, as the
\* source holds it (a ciphertext not yet decrypted)
ResolvedSource ==
    IF configFlags.Auth.AskPass THEN env.tty.answer
    ELSE IF configFlags.Auth.Password # <<>> THEN configFlags.Auth.Password
    ELSE IF PassFilePresent THEN Trimmed(env.passFile.content)
    ELSE <<>>

\* the passwords of an auth bundle
PasswordsIn(bundle) ==
    { bundle[i].secret : i \in { j \in 1..Len(bundle) : bundle[j].kind = "password" } }

\* C11: the password getPassword returns and the one put in the auth bundle
\* is never a vault ciphertext, and the vault passphrase is asked for by
\* getPassword only when the finally resolved string is a ciphertext.
VaultDecryptedBeforeUse ==
    /\ GetPasswordReturned =>
          /\ ~IsAES256CipherText(password)
          /\ (vaultAsked > 0 => IsAES256CipherText(ResolvedSource))
    /\ \A pw \in PasswordsIn(auths) : ~IsAES256CipherText(pw)

(***************************************************************************)
(* buildSSHClient with identity files, an agent and a bastion: the auth    *)
(* bundles of the target and of the bastion.                               *)
(***************************************************************************)
\* the key files of the bundle model and what each holds
KeyHome == <<"home", "id">>
KeyEnc == <<"k", "enc">>
KeyBad == <<"k", "bad">>
KeyBastion == <<"k", "bastion">>
KeyStore == (KeyHome :> "plain") @@ (KeyEnc :> "encrypted")
              @@ (KeyBad :> "garbage") @@ (KeyBastion :> "encrypted")

IdentityFileLists ==
    { <<>>, << <<"~", "id">> >>, << KeyEnc >>, << KeyBad, <<"~", "id">>, KeyEnc >>,
      << <<"k", "none">> >> }

Passphrases == { <<>>, <<"s">>, <<"x">>, Sealed(<<"s">>) }

ProxyArgs ==
    { DefaultProxy,
      [DefaultProxy EXCEPT !.Server = "bastion"],
      [DefaultProxy EXCEPT !.Server = "bastion", !.Password = <<"b">>],
      [DefaultProxy EXCEPT !.Server = "bastion", !.IdentityFiles = << KeyBastion >>],
      [DefaultProxy EXCEPT !.Server = "bastion", !.Passphrase = <<"s">>],
      [DefaultProxy EXCEPT !.Server = "bastion", !.Password = <<"b">>,
                           !.IdentityFiles = << KeyBastion >>,
                           !.Passphrase = <<"x">>] }

BundleInit ==
    /\ \E pw \in { <<>>, <<"p">> }, ask \in BOOLEAN,
          tty \in { [ok |-> TRUE, answer |-> <<"t">>], [ok |-> TRUE, answer |-> <<>>],
                    [ok |-> FALSE, answer |-> <<>>] },
          ids \in IdentityFileLists, pp \in Passphrases, vp \in VaultPasses,
          sudo \in BOOLEAN, sock \in {"unset", "ok", "refused"},
          proxy \in ProxyArgs :
          /\ configFlags = Complete([DefaultFlags EXCEPT
                              !.Auth.Password = pw,
                              !.Auth.AskPass = ask,
                              !.Auth.IdentityFiles = ids,
                              !.Auth.Passphrase = pp,
                              !.Run.Sudo = sudo,
                              !.Proxy = proxy])
          /\ env = [DefaultEnv EXCEPT !.tty = tty, !.vaultPass = vp,
                                      !.authSock = sock, !.keys = KeyStore,
                                      !.proxyArgs = proxy]
    /\ t = [DefaultTask EXCEPT !.hosts = << <<"a">> >>]
    /\ pcStart = "rangeDetail"
    /\ pcBatch = "getPassword"
    /\ Fresh

BundleNext ==
    \/ BatchRunGetPassword
    \/ BatchRunGetAuth
    \/ BatchRunGetProxyAuth

BundleSpec == BundleInit /\ [][BundleNext]_vars

\* a key file's path with a leading ~ replaced by $HOME
ExpandHome(f) == IF Len(f) > 1 /\ f[1] = "~" THEN <<env.home>> \o SubSeq(f, 2, Len(f)) ELSE f

\* the key file can be parsed, with the passphrase if it needs one
Parsable(f, passphrase) ==
    /\ f \in DOMAIN env.keys
    /\ \/ env.keys[f] = "plain"
       \/ env.keys[f] = "encrypted" /\ passphrase = env.keyPass

\* the signers of the identity files that can be parsed, in the files' order
ParsedIdentityFiles(files, passphrase) ==
    SelectSeq([i \in 1..Len(files) |-> ExpandHome(files[i])],
              LAMBDA f : Parsable(f, PlainOf(passphrase)))

\* getSSHAuthMethods returned
GetAuthReturned == pcBatch \in {"getProxyAuth", "run"}

\* the password getPassword returned (C10)
KnownPassword == HighestPriorityPassword

\* the methods getSSHAuthMethods gathers before it considers a prompt
Gathered ==
    LET signers == ParsedIdentityFiles(configFlags.Auth.IdentityFiles,
                                       configFlags.Auth.Passphrase)
    IN  (IF KnownPassword # <<>> THEN <<Password(KnownPassword)>> ELSE <<>>)
        \o (IF signers # <<>> THEN <<PublicKeys(signers)>> ELSE <<>>)
        \o (IF env.authSock = "ok" THEN <<PublicKeysCallback(1)>> ELSE <<>>)

PromptNeeded == Gathered = <<>> \/ (configFlags.Run.Sudo /\ KnownPassword = <<>>)

\* prompts shown by getSSHAuthMethods
AssemblyPrompts == prompts - (IF configFlags.Auth.AskPass THEN 1 ELSE 0)

\* C12: the target auth bundle is the password (if one is known), the
\* parsed identity files, the agent (if SSH_AUTH_SOCK is set and can be
\* dialled), in this order, with a prompted password appended exactly when
\* nothing was gathered or sudo is requested without a password; the
\* assembly prompts at most once.
AuthBundleOrder ==
    GetAuthReturned =>
        /\ auths = Gathered \o (IF PromptNeeded THEN <<Password(env.tty.answer)>> ELSE <<>>)
        /\ AssemblyPrompts = (IF PromptNeeded THEN 1 ELSE 0)

\* a bundle of identity files and agent, and the sudo password prompted for
AuthBundleOrderWitness ==
    /\ GetAuthReturned
    /\ Len(auths) = 3
    /\ auths[1].kind = "publickey" /\ Len(auths[1].signers) = 2
    /\ auths[2].kind = "agent"
    /\ auths[3] = Password(<<"t">>)
    /\ configFlags.Run.Sudo
    /\ AssemblyPrompts = 1

\* getProxySSHAuthMethods returned
GetProxyAuthReturned == pcBatch = "run" /\ configFlags.Proxy.Server # ""

\* a field of the bastion's credentials: the value the command line gives
\* for the bastion if it gives one, else the target-side value
Fallback(own, target) == IF own # <<>> THEN own ELSE target

\* C13: with a bastion configured, its bundle is built from the bastion's
\* own password, identity files and passphrase where the command line sets
\* them and from the target's otherwise (the target password being the one
\* finally resolved, a prompted one included), with an agent connection of
\* its own.
ProxyAuthFallback ==
    GetProxyAuthReturned =>
        LET pw == Fallback(env.proxyArgs.Password, password)
            files == Fallback(env.proxyArgs.IdentityFiles, configFlags.Auth.IdentityFiles)
            pp == Fallback(env.proxyArgs.Passphrase, configFlags.Auth.Passphrase)
            signers == ParsedIdentityFiles(files, pp)
        IN  proxyAuths =
              <<Password(pw)>>
              \o (IF signers # <<>> THEN <<PublicKeys(signers)>> ELSE <<>>)
              \o (IF env.authSock = "ok" THEN <<PublicKeysCallback(2)>> ELSE <<>>)

\* the bastion is given nothing of its own: it gets the password typed at
\* the prompt and the signers of the target's identity files
ProxyAuthFallbackWitness ==
    /\ GetProxyAuthReturned
    /\ env.proxyArgs = [DefaultProxy EXCEPT !.Server = "bastion"]
    /\ configFlags.Auth.Password = <<>>
    /\ password = <<"t">>
    /\ configFlags.Auth.IdentityFiles = << KeyEnc >>
    /\ proxyAuths = << Password(<<"t">>), PublicKeys(<< KeyEnc >>) >>

(***************************************************************************)
(* The agent connections over a whole run of the task.                     *)
(***************************************************************************)
\* how often agent connection c was closed
TimesClosed(c) == Cardinality({i \in 1..Len(agentClosed) : agentClosed[i] = c})

\* C14: when Start has returned, every agent connection opened during the
\* task has been closed exactly once.
AgentClosedOnce ==
    StartReturned => \A c \in 1..agentOpened : TimesClosed(c) = 1

(***************************************************************************)
(* vault encrypt-file.  The command's argument is the file "input"; -O may *)
(* name "-", the file "output" or the file "input" itself.                 *)
(***************************************************************************)
ErrNotFound == "file not found"
ErrReadFile == "read file failed"
ErrAlreadyEncrypted == "file is already encrypted"
ErrOpenFile == "open file failed"
ErrWriteFile == "write file failed"
Successful == <<"Encryption successful">>

\* util.CheckErr with a non-nil argument: the message is printed and the
\* process ends
VaultFail(e) ==
    /\ vaultErr' = e
    /\ proc' = "exited"

\* the Args validator of the command: the file must exist
EncryptFileArgs ==
    /\ proc = "running"
    /\ pcVault = "args"
    /\ IF ~fileSystem.input.exists
       THEN VaultFail(ErrNotFound) /\ UNCHANGED pcVault
       ELSE pcVault' = "run" /\ UNCHANGED <<vaultErr, proc>>
    /\ UNCHANGED <<fileSystem, outputFile, writeOk, fileContent, encryptContent,
                   encodeCalls, fileHandle, screen>>
    /\ UNCHANGED <<cfgVars, err, authVars, agentDeferred, agentClosed, pcStart,
                   pcBatch, pcTimer, loopVars, schedVars, sinkVars, logs,
                   stdout, checkedErr>>

\* Run without the test for a file that is already encrypted
EncryptFileReadNoTest ==
    /\ proc = "running"
    /\ pcVault = "run"
    /\ IF ~fileSystem.input.readable
       THEN VaultFail(ErrReadFile) /\ UNCHANGED <<pcVault, fileContent>>
       ELSE /\ fileContent' = fileSystem.input.content
            /\ pcVault' = "encode"
            /\ UNCHANGED <<vaultErr, proc>>
    /\ UNCHANGED <<fileSystem, outputFile, writeOk, encryptContent,
                   encodeCalls, fileHandle, screen>>
    /\ UNCHANGED <<cfgVars, err, authVars, agentDeferred, agentClosed, pcStart,
                   pcBatch, pcTimer, loopVars, schedVars, sinkVars, logs,
                   stdout, checkedErr>>

\* Run, up to the test for a file that is already encrypted: the vault
\* passphrase is asked for, the file is read and tested
EncryptFileRead ==
    /\ proc = "running"
    /\ pcVault = "run"
    /\ IF ~fileSystem.input.readable
       THEN VaultFail(ErrReadFile) /\ UNCHANGED <<pcVault, fileContent>>
       ELSE /\ fileContent' = fileSystem.input.content
            /\ IF IsAES256CipherText(fileSystem.input.content)
               THEN VaultFail(ErrAlreadyEncrypted) /\ UNCHANGED pcVault
               ELSE pcVault' = "encode" /\ UNCHANGED <<vaultErr, proc>>
    /\ UNCHANGED <<fileSystem, outputFile, writeOk, encryptContent,
                   encodeCalls, fileHandle, screen>>
    /\ UNCHANGED <<cfgVars, err, authVars, agentDeferred, agentClosed, pcStart,
                   pcBatch, pcTimer, loopVars, schedVars, sinkVars, logs,
                   stdout, checkedErr>>

\* encryptContent, err := aes.AES256Encode(content, vaultPass)
EncryptFileEncode ==
    /\ proc = "running"
    /\ pcVault = "encode"
    /\ encodeCalls' = encodeCalls + 1
    /\ LET e == AES256Encode(fileContent, env.vaultPass)
       IN  IF e.err # NoErr
           THEN VaultFail(e.err) /\ UNCHANGED <<pcVault, encryptContent>>
           ELSE /\ encryptContent' = e.cipher
                /\ pcVault' = "output"
                /\ UNCHANGED <<vaultErr, proc>>
    /\ UNCHANGED <<fileSystem, outputFile, writeOk, fileContent, fileHandle, screen>>
    /\ UNCHANGED <<cfgVars, err, authVars, agentDeferred, agentClosed, pcStart,
                   pcBatch, pcTimer, loopVars, schedVars, sinkVars, logs,
                   stdout, checkedErr>>

\* os.OpenFile(name, O_CREATE|O_APPEND|O_RDWR): the file is created empty
\* if it does not exist; what it holds is kept
OpenAppend(fs, name) ==
    IF fs[name].exists
    THEN [ok |-> fs[name].readable /\ fs[name].writable, fs |-> fs]
    ELSE IF fs[name].writable
    THEN [ok |-> TRUE,
          fs |-> [fs EXCEPT ![name] = [exists |-> TRUE, content |-> <<>>,
                                       readable |-> TRUE, writable |-> TRUE]]]
    ELSE [ok |-> FALSE, fs |-> fs]

\* os.OpenFile(name, O_TRUNC|O_RDWR): the file is emptied when it is opened
OpenTrunc(fs, name) ==
    IF fs[name].exists /\ fs[name].readable /\ fs[name].writable
    THEN [ok |-> TRUE, fs |-> [fs EXCEPT ![name].content = <<>>]]
    ELSE [ok |-> FALSE, fs |-> fs]

\* the output step of Run with -O <path> taken for the input file
EncryptFileOutputInPlace ==
    /\ proc = "running"
    /\ pcVault = "output"
    /\ IF outputFile = "-"
       THEN /\ screen' = <<encryptContent, Successful>>
            /\ pcVault' = "done"
            /\ proc' = "exited"
            /\ UNCHANGED <<fileSystem, fileHandle, vaultErr>>
       ELSE LET o == OpenTrunc(fileSystem, "input")
            IN  IF o.ok
                THEN /\ fileSystem' = o.fs
                     /\ fileHandle' = "input"
                     /\ pcVault' = "write"
                     /\ UNCHANGED <<screen, vaultErr, proc>>
                ELSE /\ VaultFail(ErrOpenFile)
                     /\ UNCHANGED <<fileSystem, fileHandle, screen, pcVault>>
    /\ UNCHANGED <<outputFile, writeOk, fileContent, encryptContent, encodeCalls>>
    /\ UNCHANGED <<cfgVars, err, authVars, agentDeferred, agentClosed, pcStart,
                   pcBatch, pcTimer, loopVars, schedVars, sinkVars, logs,
                   stdout, checkedErr>>

\* the output step of Run: -O - prints and returns; -O <path> opens the
\* path for appending; no -O opens the input file truncated
EncryptFileOutput ==
    /\ proc = "running"
    /\ pcVault = "output"
    /\ IF outputFile = "-"
       THEN /\ screen' = <<encryptContent, Successful>>
            /\ pcVault' = "done"
            /\ proc' = "exited"
            /\ UNCHANGED <<fileSystem, fileHandle, vaultErr>>
       ELSE LET name == IF outputFile # "" THEN outputFile ELSE "input"
                o == IF outputFile # ""
                     THEN OpenAppend(fileSystem, name)
                     ELSE OpenTrunc(fileSystem, name)
            IN  IF o.ok
                THEN /\ fileSystem' = o.fs
                     /\ fileHandle' = name
                     /\ pcVault' = "write"
                     /\ UNCHANGED <<screen, vaultErr, proc>>
                ELSE /\ VaultFail(ErrOpenFile)
                     /\ UNCHANGED <<fileSystem, fileHandle, screen, pcVault>>
    /\ UNCHANGED <<outputFile, writeOk, fileContent, encryptContent, encodeCalls>>
    /\ UNCHANGED <<cfgVars, err, authVars, agentDeferred, agentClosed, pcStart,
                   pcBatch, pcTimer, loopVars, schedVars, sinkVars, logs,
                   stdout, checkedErr>>

\* reader.WriteTo(f): the ciphertext goes to the end of what the opened
\* file holds
EncryptFileWrite ==
    /\ proc = "running"
    /\ pcVault = "write"
    /\ IF writeOk
       THEN /\ fileSystem' = [fileSystem EXCEPT
                                ![fileHandle].content = @ \o encryptContent]
            /\ screen' = <<Successful>>
            /\ pcVault' = "done"
            /\ proc' = "exited"
            /\ UNCHANGED vaultErr
       ELSE /\ VaultFail(ErrWriteFile)
            /\ UNCHANGED <<fileSystem, screen, pcVault>>
    /\ UNCHANGED <<outputFile, writeOk, fileContent, encryptContent, encodeCalls,
                   fileHandle>>
    /\ UNCHANGED <<cfgVars, err, authVars, agentDeferred, agentClosed, pcStart,
                   pcBatch, pcTimer, loopVars, schedVars, sinkVars, logs,
                   stdout, checkedErr>>

\* what the input file may hold
InputContents == { <<>>, <<"a">>, <<"a", NL, "b">>, Sealed(<<"a">>),
                   <<VaultHeader, "w", "a">> }

InputFiles ==
    { NoVaultFile }
    \cup { [exists |-> TRUE, content |-> c, readable |-> r, writable |-> w] :
             c \in InputContents,
             r \in BOOLEAN, w \in BOOLEAN }

OutputFiles ==
    { NoVaultFile, [NoVaultFile EXCEPT !.writable = TRUE] }
    \cup { [exists |-> TRUE, content |-> c, readable |-> TRUE, writable |-> w] :
             c \in { <<>>, <<"o">>, Sealed(<<"a">>) }, w \in BOOLEAN }

EncryptInit ==
    /\ \E i \in InputFiles, o \in OutputFiles, vp \in { <<>>, <<"k">>, <<"w">> } :
          /\ env = [DefaultEnv EXCEPT !.vaultPass = vp,
                                      !.disk = [input |-> i, output |-> o]]
          /\ fileSystem = [input |-> i, output |-> o]
    /\ outputFile \in {"", "-", "output", "input"}
    /\ writeOk \in BOOLEAN
    /\ pcVault = "args"
    /\ fileContent = <<>>
    /\ encryptContent = <<>>
    /\ encodeCalls = 0
    /\ fileHandle = ""
    /\ screen = <<>>
    /\ vaultErr = NoErr
    /\ configFlags = DefaultFlags
    /\ t = DefaultTask
    /\ pcStart = "init"
    /\ pcBatch = "idle"
    /\ FreshTask

EncryptNext ==
    \/ EncryptFileArgs
    \/ EncryptFileRead
    \/ EncryptFileEncode
    \/ EncryptFileOutput
    \/ EncryptFileWrite

EncryptSpec == EncryptInit /\ [][EncryptNext]_vars

\* the input file held a vault ciphertext when the command was started
AlreadyEncrypted ==
    /\ env.disk.input.exists
    /\ env.disk.input.readable
    /\ IsAES256CipherText(env.disk.input.content)

\* the command is over
VaultEnded == pcVault # "idle" /\ proc = "exited"

\* C15: on a file that already holds a vault ciphertext the command ends
\* with the error "already encrypted", never calls encode and modifies no
\* file (and prints nothing).
NoDoubleWrap ==
    AlreadyEncrypted =>
        /\ encodeCalls = 0
        /\ fileSystem = env.disk
        /\ screen = <<>>
        /\ pcVault \in {"args", "run"}
        /\ IF VaultEnded THEN vaultErr = ErrAlreadyEncrypted ELSE ENABLED EncryptNext

\* the command was given a ciphertext with -O naming another file and has
\* ended
NoDoubleWrapWitness ==
    /\ AlreadyEncrypted
    /\ VaultEnded
    /\ outputFile = "output"
    /\ env.disk.output.exists /\ env.disk.output.writable
    /\ vaultErr = ErrAlreadyEncrypted

\* the command returned from Run without an error
EncryptionSucceeded == pcVault = "done"

\* the ciphertext of what the input file held, under the passphrase given
Envelope == <<VaultHeader>> \o env.vaultPass \o env.disk.input.content

\* s ends with x
EndsWith(s, x) ==
    Len(s) >= Len(x) /\ SubSeq(s, Len(s) - Len(x) + 1, Len(s)) = x

\* the ciphertext was printed
Printed == \E i \in 1..Len(screen) : screen[i] = Envelope

\* nothing is written when encode fails
EncodeErrorWritesNothing ==
    vaultErr = ErrEncrypt => fileSystem = env.disk /\ screen = <<>>

\* the input file is rewritten in place (no -O), or nothing but stdout is
\* written (-O -)
InPlaceOrStdout ==
    /\ EncryptionSucceeded /\ outputFile = "" =>
          /\ fileSystem.input.content = Envelope
          /\ fileSystem.output = env.disk.output
          /\ ~Printed
    /\ EncryptionSucceeded /\ outputFile = "-" =>
          /\ fileSystem = env.disk
          /\ Printed

\* C16 as stated: one destination is written; with -O <path> it is the
\* path, and the input file is left unchanged.
OneDestination ==
    /\ InPlaceOrStdout
    /\ EncryptionSucceeded /\ outputFile \notin {"", "-"} =>
          /\ EndsWith(fileSystem[outputFile].content, Envelope)
          /\ fileSystem.input = env.disk.input
          /\ ~Printed
    /\ EncodeErrorWritesNothing

\* C16: one destination is written; with -O <path> naming another file
\* than the input the ciphertext goes to the end of the path, which is
\* created if missing, and the input file is left unchanged; with -O naming
\* the input file the ciphertext goes to the end of the input file.
OneDestinationOtherFile ==
    /\ InPlaceOrStdout
    /\ EncryptionSucceeded /\ outputFile = "output" =>
          /\ fileSystem.output.exists
          /\ fileSystem.output.content = env.disk.output.content \o Envelope
          /\ fileSystem.input = env.disk.input
          /\ ~Printed
    /\ EncryptionSucceeded /\ outputFile = "input" =>
          /\ fileSystem.input.content = env.disk.input.content \o Envelope
          /\ fileSystem.output = env.disk.output
          /\ ~Printed
    /\ EncodeErrorWritesNothing

\* -O names another file, which held something: the ciphertext was written
\* to it and the input file still holds the plaintext
OneDestinationOtherFileWitness ==
    /\ EncryptionSucceeded
    /\ outputFile = "output"
    /\ env.disk.input.content = <<"a">>
    /\ env.disk.output.content = <<"o">>
    /\ fileSystem.input.content = <<"a">>
    /\ fileSystem.output.content = <<"o", VaultHeader, "k", "a">>

(***************************************************************************)
(* HandleOutput on one host's captured output: BatchRun has received the   *)
(* host's result and is about to send it to the detail sink.               *)
(***************************************************************************)
\* longest captured output (in characters) drawn for HandleOutput
MaxOutputLen == 6

OutputChars == {"x", PromptEn, PromptZh, SP, NL}

OutputInit ==
    /\ \E msg \in SeqsUpTo(OutputChars, MaxOutputLen) :
          /\ v = [Addr |-> <<"a">>, Status |-> SuccessIdentifier, Message |-> msg]
          /\ reported = <<v>>
    /\ configFlags = [DefaultFlags EXCEPT !.Auth.Password = <<"p">>,
                                          !.Run.Sudo = TRUE]
    /\ env = DefaultEnv
    /\ t = [DefaultTask EXCEPT !.hosts = << <<"a">> >>]
    /\ err = NoErr
    /\ password = <<"p">>
    /\ passwordErr = NoErr
    /\ auths = <<Password(<<"p">>)>>
    /\ proxyAuths = <<>>
    /\ sshClient = NewClient("root", <<"p">>, auths, 1, "", <<>>)
    /\ sshAgent = NoConn
    /\ agentDeferred = NoConn
    /\ agentOpened = 0
    /\ agentClosed = <<>>
    /\ prompts = 0
    /\ vaultAsked = 0
    /\ pcStart = "rangeDetail"
    /\ pcBatch = "send"
    /\ pcTimer = "off"
    /\ proc = "running"
    /\ allHosts = << <<"a">> >>
    /\ successCount = 1
    /\ failedCount = 0
    /\ result = <<>>
    /\ resultClosed = TRUE
    /\ schedPending = <<>>
    /\ schedRunning = {}
    /\ detailClosed = FALSE
    /\ taskOutput = <<>>
    /\ taskClosed = FALSE
    /\ detailSent = <<>>
    /\ taskSent = <<>>
    /\ logs = <<>>
    /\ stdout = <<>>
    /\ checkedErr = "unchecked"
    /\ VaultIdle

OutputNext ==
    \/ SendDetail
    \/ HandleDetail

OutputSpec == OutputInit /\ [][OutputNext]_vars

\* the lines of a text that say something: every line without the white
\* space around it, the empty lines and the sudo prompt lines left out
TextLines(s) ==
    LET lines == Split(ReplaceCRNL(s))
        trimmed == [i \in 1..Len(lines) |-> TrimSpace(lines[i])]
    IN  SelectSeq(trimmed,
                  LAMBDA l : l # <<>> /\ l # <<PromptEn>> /\ l # <<PromptZh>>)

\* the per-host lines of the log, in order
DetailLogs == SelectSeq(logs, LAMBDA l : l.kind = "detail")

\* C17: the message logged for a host holds no sudo prompt, and holds
\* every other line of the captured output, in order.
SudoPromptStripped ==
    \A i \in 1..Len(DetailLogs) :
        /\ PromptEn \notin Range(DetailLogs[i].output)
        /\ PromptZh \notin Range(DetailLogs[i].output)
        /\ TextLines(DetailLogs[i].output) = TextLines(detailSent[i].output)

(***************************************************************************)
(* The detail sink as a channel.                                           *)
(***************************************************************************)
\* BatchRun has a per-host result to send and the detail sink is open
SenderAtSend == proc = "running" /\ pcBatch = "send" /\ ~detailClosed

\* C18: a per-host result can always be sent to the detail sink at once,
\* whether or not the consumer stands at its receive.
DetailSendNeverBlocks == SenderAtSend => ENABLED SendDetail

(***************************************************************************)
(* What the caller of Start is told.                                       *)
(***************************************************************************)
\* the caller of Start has asked CheckErr
Finished == checkedErr # "unchecked"

SomeHostFailed == \E i \in 1..Len(reported) : reported[i].Status # SuccessIdentifier

\* the exit status the four cases call for
ExpectedExit ==
    IF TimerFired THEN 3
    ELSE IF err # NoErr THEN 2
    ELSE IF SomeHostFailed THEN 1
    ELSE 0

\* the exit status the caller can tell from what Start and CheckErr give
\* it: an error or none
ReportedExit == IF checkedErr # NoErr THEN 2 ELSE 0

\* C19: what a finished task reports to its caller tells apart all hosts
\* succeeded (0), a host failed (1), a configuration error before fan-out
\* (2) and the task timeout (3).
OutcomeDistinguishesCases == Finished => ReportedExit = ExpectedExit

(***************************************************************************)
(* The worker pool.                                                        *)
(***************************************************************************)
\* C20: at no instant are more hosts in flight than --run.concurrency
\* allows.
InFlightWithinConcurrency ==
    Cardinality(schedRunning) <= configFlags.Run.Concurrency

\* two workers allowed, two hosts in flight and a third one waiting
InFlightWithinConcurrencyWitness ==
    /\ configFlags.Run.Concurrency = 2
    /\ Cardinality(schedRunning) = 2
    /\ schedPending # <<>>

(***************************************************************************)
(* The two sinks under the BatchRun goroutine, the timer goroutine and the *)
(* consumer.  A close of a closed channel and a send on a closed channel   *)
(* are run-time panics.                                                    *)
(***************************************************************************)
\* C21: in every interleaving no sink is closed twice and nothing is sent
\* on a closed sink.
SinksNeverMisused == proc # "panicked"

(***************************************************************************)
(* The task without a task timeout, under fair scheduling: the Go runtime  *)
(* runs a goroutine that can take a step, and the scheduler delivers its   *)
(* results and closes its result channel.  No timer goroutine exists, so   *)
(* no step of it and no send on a closed sink is part of this              *)
(* specification.                                                          *)
(***************************************************************************)
\* the tasks of Init that have no task timeout; the hosts are given as
\* arguments and the workers are as many as the configuration allows
LiveInit ==
    /\ Init
    /\ configFlags.Timeout.Task = 0
    /\ configFlags.Hosts.File = ""
    /\ configFlags.Run.Concurrency = MaxConcurrency

LiveNext ==
    \/ Start
    \/ BatchRunGetHosts
    \/ BatchRunPrecheck
    \/ BatchRunGetPassword
    \/ BatchRunGetAuth
    \/ BatchRunGetProxyAuth
    \/ BatchRunRun
    \/ SchedStart
    \/ SchedFinish
    \/ SchedClose
    \/ BatchRunRecv
    \/ BatchRunLoopEnd
    \/ SendDetail
    \/ HandleDetail
    \/ BatchRunSummary
    \/ BatchRunCloseDetail
    \/ BatchRunCloseTask
    \/ HandleDetailEnd
    \/ HandleTask
    \/ HandleTaskEnd
    \/ Exit

LiveSpec == LiveInit /\ [][LiveNext]_vars /\ WF_vars(LiveNext)

\* util.CheckErr ended the process before the fan-out (a precondition's
\* mkdir, the password, the credentials): the scheduler never ran
ProcessEndedBeforeFanOut ==
    /\ proc = "exited"
    /\ pcBatch \in {"precheck", "getPassword", "getAuth", "getProxyAuth"}

StartCalled == pcStart # "init"

\* C22: with no task timeout, once Start is called it eventually returns
\* (unless the process was ended before the fan-out): the producer never
\* blocks forever on a sink and the consumer never waits on a sink that is
\* never closed, on the fan-out path, the pre-fan-out error path and the
\* list-only path.
StartEventuallyReturns == StartCalled ~> (StartReturned \/ ProcessEndedBeforeFanOut)

\* Start returned after a fan-out over two hosts, after a pre-fan-out
\* error and after a listing
StartEventuallyReturnsWitness ==
    /\ StartReturned
    /\ configFlags.Timeout.Task = 0
    /\ Len(detailSent) = 2
    /\ Len(taskSent) = 1

StartReturnsOnErrorPathWitness ==
    StartReturned /\ configFlags.Timeout.Task = 0 /\ err # NoErr /\ ~FannedOut

StartReturnsOnListPathWitness ==
    StartReturned /\ configFlags.Timeout.Task = 0 /\ stdout # <<>> /\ ~FannedOut

(***************************************************************************)
(* The order of the log lines HandleOutput writes.                         *)
(***************************************************************************)
SummaryLogged == LogsOfKind("summary") # {}

\* C23: the summary is logged only after the detail sink was closed and
\* every detail result sent was logged, and no per-host result line follows
\* the summary line.
SummaryAfterDetails ==
    SummaryLogged =>
        /\ detailClosed
        /\ Cardinality(LogsOfKind("detail")) = Len(detailSent)
        /\ \A i \in LogsOfKind("summary"), j \in LogsOfKind("detail") : j < i

\* the summary was logged after the results of two hosts
SummaryAfterDetailsWitness ==
    /\ SummaryLogged
    /\ Cardinality(LogsOfKind("detail")) = 2
    /\ Len(detailSent) = 2

(***************************************************************************)
(* The task error field, written by the BatchRun goroutine and read by     *)
(* CheckErr in the caller of Start.                                        *)
(***************************************************************************)
\* BatchRun has not yet passed its assignments to t.err (getAllHosts'
\* error and the precondition switch)
ErrWritePending == pcBatch \in {"getHosts", "precheck"}

\* C24: every write of the task error field by BatchRun happens before
\* Start returns, on natural completion and when the task timeout makes
\* Start return.
ErrWrittenBeforeReturn == StartReturned => ~ErrWritePending

(***************************************************************************)
(* The size of the target auth bundle.                                     *)
(***************************************************************************)
PasswordMethods == {i \in 1..Len(auths) : auths[i].kind = "password"}

\* C25: for every combination of password, identity files, agent and sudo
\* the target auth bundle getSSHAuthMethods returns holds at least one
\* method and at most one password method.
AuthBundleOnePassword ==
    GetAuthReturned => Len(auths) >= 1 /\ Cardinality(PasswordMethods) <= 1

\* a known password with sudo on, beside identity files and the agent: the
\* bundle holds three methods, one of them the password
AuthBundleOnePasswordWitness ==
    /\ GetAuthReturned
    /\ configFlags.Run.Sudo
    /\ KnownPassword # <<>>
    /\ Len(auths) = 3
    /\ Cardinality(PasswordMethods) = 1

\* nothing gathered: the bundle is the one prompted password
AuthBundlePromptOnlyWitness ==
    /\ GetAuthReturned
    /\ Gathered = <<>>
    /\ configFlags.Run.Sudo
    /\ Len(auths) = 1
    /\ Cardinality(PasswordMethods) = 1

(***************************************************************************)
(* What the file named by -O holds after encrypt-file.                     *)
(***************************************************************************)
\* C26: after a successful encrypt-file with -O <path> (not "-") the path
\* holds exactly the one envelope of this run, whatever it held before.
OutputHoldsOneEnvelope ==
    EncryptionSucceeded /\ outputFile \notin {"", "-"} =>
        fileSystem[outputFile].content = Envelope

=============================================================================
